---- MODULE Spec2Model ----
(***************************************************************************)
(* State-machine model of src/src/index.ts: the transcript store (D1), the *)
(* ConversationalAgent durable object (handleMessage turns and the         *)
(* /agent/state entry point), the ConversationWorkflow pipeline, the       *)
(* request gateway (POST /api/chat, GET /api/history and the routing of    *)
(* every other request), the KV-backed fixed-window rate limiter and the   *)
(* process-wide schema bootstrap.                                          *)
(*                                                                         *)
(* Every `await` of the source is a suspension point.  An action models    *)
(* the completion of the awaited operation together with the synchronous   *)
(* code that runs up to the next await, so handlers of different requests  *)
(* interleave exactly at the awaits, as they do on a single JS event loop. *)
(***************************************************************************)
EXTENDS Integers, Sequences, FiniteSets, TLC

VARIABLES
  now,            \* Date.now(), milliseconds
  budget,         \* how many requests of each kind the environment sends
  conversations,  \* table conversations: id -> <<>> (no row) or <<created_at>>
  messages,       \* table conversation_messages, in insertion (rowid) order
  summaries,      \* table conversation_summaries: the set of its rows
  agentState,     \* this.state of the ConversationalAgent of each conversation
  turns,          \* the handleMessage invocations, in order of arrival
  workflows,      \* ids of the workflow instances CHAT_WORKFLOW.create made
  lastUpdate,     \* the latest /agent/state request and the state it found
  kv,             \* RATE_LIMITER namespace: key -> <<>> or <<entry>>
  rlParams,       \* the (limit, windowMs) the callers of enforceRateLimit pass
  rlCalls,        \* the enforceRateLimit invocations, in order of arrival
  schemaReady,    \* module variable schemaReady: <<>> (null) or <<promise>>
  inits,          \* the promises made by ensureSchema's async initializer
  callers,        \* the ensureSchema invocations, in order of arrival
  tables,         \* the migration statements that have run successfully
  fetched,        \* the latest fetchMessages call of the store scenario
  ensured,        \* the ensureConversation calls of the table scenario
  upserted,       \* the persistSummary calls of the table scenario
  runs,           \* the ConversationWorkflow.run invocations, in order of start
  requests,       \* the requests that reached the worker's fetch handler
  extraction      \* the summary text at hand and what extractPinnedFacts made

agentVars  == <<conversations, messages, summaries, agentState, turns,
                workflows, lastUpdate>>
rlVars     == <<kv, rlParams, rlCalls>>
schemaVars == <<schemaReady, inits, callers, tables>>
storeVars  == <<fetched, ensured, upserted>>
pipeVars   == <<runs>>
gateVars   == <<requests>>
factVars   == <<extraction>>
otherVars  == <<pipeVars, gateVars, factVars>>
vars       == <<now, budget, agentVars, rlVars, schemaVars, storeVars,
                otherVars>>

----------------------------------------------------------------------------
(* Bounds of the model. *)

MaxNow        == 2   \* the clock of the agent scenarios stops advancing here
MaxConcurrent == 2   \* handleMessage invocations of the concurrent scenario
MaxTurns      == 1   \* handleMessage invocations of the single-turn scenario
MaxUpdates    == 2   \* /agent/state requests of the state scenario
MaxCalls      == 3   \* enforceRateLimit invocations of the limiter scenario
MaxTicks      == 1   \* clock advances of the limiter scenario
MaxCallers    == 3   \* ensureSchema invocations of the bootstrap scenario
MaxRows       == 3   \* rows written in the store scenario
MaxFetchLimit == 2   \* largest LIMIT of the store scenario
MaxRuns       == 1   \* pipeline runs of the pipeline scenario
MaxOverlap    == 2   \* pipeline runs of the overlap scenario
MaxPipeRows   == 1   \* rows written in the pipeline scenarios
MaxStoreCalls == 2   \* statements issued in the table scenario
MaxLines      == 6   \* lines of a summary text in the extraction scenario
MaxChats      == 1   \* POST /api/chat requests of the gateway scenarios
MaxReads      == 1   \* GET /api/history requests of the gateway scenario
MaxRoutes     == 2   \* other requests of the routing scenario
MaxRetries    == 1   \* retries of the summarize step in the retry scenario
MaxCrashes    == 1   \* interruptions of a run in the resume scenario
MaxWriters    == 2   \* requests of all kinds in the writers scenario

Convs == {"c1", "c2"}

Keys == {"rate:a"}

\* the caller addresses (CF-Connecting-IP) and the keys handleChatRequest
\* derives: `rate:${keySeed}`, a crypto.randomUUID() seed being new each time
Ips == {"ip"}

RateKey(keySeed) == "rate:" \o keySeed

RandomSeed(n) == "uuid" \o ToString(n)

GatewayKeys ==
  {RateKey(seed) : seed \in Convs \cup Ips \cup {RandomSeed(n) : n \in 1..MaxChats}}

AllKeys == Keys \cup GatewayKeys

----------------------------------------------------------------------------
(* Values.  An optional value (undefined / null in the source) is <<>>,    *)
(* a present one is <<v>>.  A text is a sequence of characters.            *)

None    == <<>>
Some(x) == <<x>>

Newline == "\n"

Whitespace == {" ", "\t", Newline}

RECURSIVE TrimStart(_)
TrimStart(s) ==
  IF s # <<>> /\ Head(s) \in Whitespace THEN TrimStart(Tail(s)) ELSE s

RECURSIVE TrimEnd(_)
TrimEnd(s) ==
  IF s # <<>> /\ s[Len(s)] \in Whitespace
  THEN TrimEnd(SubSeq(s, 1, Len(s) - 1)) ELSE s

\* String.prototype.trim
Trim(s) == TrimEnd(TrimStart(s))

\* new Date(ms).toISOString(): the timestamp as a string value
ToISOString(ms) == [iso |-> ms]

----------------------------------------------------------------------------
(* TranscriptStore: the D1 statements.                                     *)

\* INSERT OR REPLACE in place of INSERT OR IGNORE
EnsureConversationReplace(tbl, conversationId, createdAt) ==
  [tbl EXCEPT ![conversationId] = Some(createdAt)]

\* INSERT OR IGNORE INTO conversations (id, created_at)
EnsureConversation(tbl, conversationId, createdAt) ==
  IF tbl[conversationId] = None
  THEN [tbl EXCEPT ![conversationId] = Some(createdAt)]
  ELSE tbl

\* persistMessage that stores the user messages only
PersistMessageUserOnly(tbl, conversationId, role, content, createdAt) ==
  IF role = "user"
  THEN Append(tbl, [id             |-> Len(tbl) + 1,
                    conversationId |-> conversationId,
                    role           |-> role,
                    content        |-> content,
                    createdAt      |-> createdAt])
  ELSE tbl

\* INSERT INTO conversation_messages; crypto.randomUUID() is a fresh id
PersistMessage(tbl, conversationId, role, content, createdAt) ==
  Append(tbl, [id             |-> Len(tbl) + 1,
               conversationId |-> conversationId,
               role           |-> role,
               content        |-> content,
               createdAt      |-> createdAt])

Reverse(s) == [i \in 1..Len(s) |-> s[Len(s) + 1 - i]]

Min(a, b) == IF a <= b THEN a ELSE b

\* ORDER BY created_at DESC names no second sort key: the rows of equal
\* created_at come in whatever order the engine produces.  The result is the
\* set of the orders the statement allows.
RECURSIVE OrderByCreatedAtDesc(_, _)
OrderByCreatedAtDesc(rows, left) ==
  IF left = {} THEN {<<>>}
  ELSE LET newest == {i \in left :
                        \A j \in left : rows[j].createdAt <= rows[i].createdAt}
       IN UNION {{<<rows[i]>> \o rest :
                    rest \in OrderByCreatedAtDesc(rows, left \ {i})} :
                 i \in newest}

\* the SELECT of fetchMessages without its LIMIT
FetchMessagesUnlimited(tbl, conversationId, limit) ==
  LET rows == SelectSeq(tbl, LAMBDA m : m.conversationId = conversationId)
  IN {Reverse(o) : o \in OrderByCreatedAtDesc(rows, 1..Len(rows))}

\* SELECT ... WHERE conversation_id = ?1 ORDER BY created_at DESC LIMIT ?2,
\* then result.results.reverse(): every result the call can return
FetchMessages(tbl, conversationId, limit) ==
  LET rows == SelectSeq(tbl, LAMBDA m : m.conversationId = conversationId)
  IN {Reverse(SubSeq(o, 1, Min(limit, Len(o)))) :
        o \in OrderByCreatedAtDesc(rows, 1..Len(rows))}

\* INSERT OR IGNORE in place of the upsert: an existing row is kept
PersistSummaryIgnore(tbl, conversationId, summary, updatedAt) ==
  IF \E r \in tbl : r.conversationId = conversationId
  THEN tbl
  ELSE tbl \cup {[conversationId |-> conversationId, summary |-> summary,
                  updatedAt |-> updatedAt]}

\* INSERT INTO conversation_summaries ... ON CONFLICT(conversation_id)
\* DO UPDATE SET summary = excluded.summary, updated_at = excluded.updated_at
PersistSummary(tbl, conversationId, summary, updatedAt) ==
  {r \in tbl : r.conversationId # conversationId}
    \cup {[conversationId |-> conversationId, summary |-> summary,
           updatedAt |-> updatedAt]}

\* SELECT ... FROM conversation_summaries WHERE conversation_id = ?1, then
\* .first(): every result the call can return (null when no row matches)
FetchSummary(tbl, conversationId) ==
  LET rows == {r \in tbl : r.conversationId = conversationId}
  IN IF rows = {} THEN {None} ELSE {Some(r) : r \in rows}

----------------------------------------------------------------------------
(* ConversationalAgent.                                                    *)

\* this.initialState
InitialState ==
  [conversationId |-> None, summary |-> None, pinnedFacts |-> <<>>,
   lastUpdated |-> None]

\* getSafeState: this.state is initialState until the first setState, and
\* every setState writes an array to pinnedFacts, so neither fallback of the
\* source is taken and the current state is returned
GetSafeState(current) == current

\* what env.AI.run can hand back to runChatCompletion
AiResults ==
  { [kind |-> "response",    text |-> <<"a", " ">>],
    [kind |-> "response",    text |-> <<" ">>],
    [kind |-> "response",    text |-> <<>>],
    [kind |-> "missing",     text |-> <<>>],
    [kind |-> "throws",      text |-> <<>>] }

\* runChatCompletion without its check of the result
RunChatCompletionUnchecked(result) ==
  IF result.kind = "throws"
  THEN [ok |-> FALSE, reply |-> <<>>, error |-> "AI.run rejected"]
  ELSE [ok |-> TRUE, error |-> "",
        reply |-> Trim(IF result.kind \in {"response", "output_text"}
                       THEN result.text ELSE <<>>)]

\* runChatCompletion after env.AI.run settled: response ?? output_text ?? "",
\* throw on a falsy text, else the trimmed text
RunChatCompletion(result) ==
  LET response == IF result.kind \in {"response", "output_text"}
                  THEN result.text ELSE <<>>
  IN IF result.kind = "throws"
     THEN [ok |-> FALSE, reply |-> <<>>, error |-> "AI.run rejected"]
     ELSE IF response = <<>>
     THEN [ok |-> FALSE, reply |-> <<>>,
           error |-> "The AI model did not return a response"]
     ELSE [ok |-> TRUE, reply |-> Trim(response), error |-> ""]

\* the metadata a caller can put into the payload
NoMetadata == [k \in {} |-> 0]
Metadatas == {NoMetadata, [messageCount |-> 99]}

\* { ...a, ...b }
Spread(a, b) ==
  [k \in DOMAIN a \cup DOMAIN b |-> IF k \in DOMAIN b THEN b[k] ELSE a[k]]

UserTexts == {<<"h">>}

\* handleMessage up to its first await: createdAt = Date.now(),
\* agentState = this.getSafeState(), ensureConversation is issued
NewTurn(conversationId, message, metadata, t, state) ==
  [conv |-> conversationId, message |-> message, metadata |-> metadata,
   pc |-> "ensureConversation", createdAt |-> t,
   agentState |-> GetSafeState(state),
   summaryRecord |-> None, history |-> <<>>,
   aiCalls |-> 0, aiResult |-> None, reply |-> <<>>, assistantAt |-> 0,
   wrote |-> {}, stateWrites |-> 0, enqueue |-> "none",
   outcome |-> "none", error |-> "", response |-> None]

\* POST /agent/message arrives at the agent of conversation c
HandleMessageStart(c, message, metadata) ==
  /\ budget.turns > 0
  /\ budget' = [budget EXCEPT !.turns = @ - 1]
  /\ turns' = Append(turns, NewTurn(c, message, metadata, now, agentState[c]))
  /\ UNCHANGED <<now, conversations, messages, summaries, agentState,
                 workflows, lastUpdate, rlVars, schemaVars, storeVars, otherVars>>

\* await ensureConversation(...) completes; fetchSummary is issued
EnsureConversationDone(t) ==
  /\ turns[t].pc = "ensureConversation"
  /\ conversations' =
       EnsureConversation(conversations, turns[t].conv, turns[t].createdAt)
  /\ turns' = [turns EXCEPT ![t].pc = "fetchSummary"]
  /\ UNCHANGED <<now, budget, messages, summaries, agentState, workflows,
                 lastUpdate, rlVars, schemaVars, storeVars, otherVars>>

\* await fetchSummary(...) completes; fetchMessages(..., 15) is issued
FetchSummaryDone(t) ==
  /\ turns[t].pc = "fetchSummary"
  /\ \E record \in FetchSummary(summaries, turns[t].conv) :
       turns' = [turns EXCEPT ![t].summaryRecord = record,
                              ![t].pc = "fetchMessages"]
  /\ UNCHANGED <<now, budget, conversations, messages, summaries, agentState,
                 workflows, lastUpdate, rlVars, schemaVars, storeVars, otherVars>>

HistoryLimit == 15

\* await fetchMessages(...) completes; runChatCompletion calls env.AI.run
FetchMessagesDone(t) ==
  /\ turns[t].pc = "fetchMessages"
  /\ \E h \in FetchMessages(messages, turns[t].conv, HistoryLimit) :
       turns' = [turns EXCEPT ![t].history = h,
                              ![t].aiCalls = @ + 1,
                              ![t].pc = "inference"]
  /\ UNCHANGED <<now, budget, conversations, messages, summaries, agentState,
                 workflows, lastUpdate, rlVars, schemaVars, storeVars, otherVars>>

\* the turn after runChatCompletion settled: on a reply the user message is
\* issued to persistMessage, on a throw handleMessage rejects
AfterInference(turn, result) ==
  LET r == RunChatCompletion(result)
  IN IF r.ok
     THEN [turn EXCEPT !.aiResult = Some(result), !.reply = r.reply,
                       !.pc = "persistUser"]
     ELSE [turn EXCEPT !.aiResult = Some(result), !.pc = "done",
                       !.outcome = "threw", !.error = r.error]

\* await runChatCompletion(...) settles
InferenceDone(t) ==
  /\ turns[t].pc = "inference"
  /\ \E result \in AiResults :
       turns' = [turns EXCEPT ![t] = AfterInference(turns[t], result)]
  /\ UNCHANGED <<now, budget, conversations, messages, summaries, agentState,
                 workflows, lastUpdate, rlVars, schemaVars, storeVars, otherVars>>

\* the assistant row stamped in seconds
AssistantCreatedAtSeconds(t) == t \div 1000

\* the Date.now() passed as the createdAt of the assistant row, evaluated
\* when the clock shows t
AssistantCreatedAt(t) == t

\* await persistMessage(..., "user", message, createdAt) completes; the
\* assistant row is issued with Date.now()
PersistUserDone(t) ==
  /\ turns[t].pc = "persistUser"
  /\ messages' = PersistMessage(messages, turns[t].conv, "user",
                                turns[t].message, turns[t].createdAt)
  /\ turns' = [turns EXCEPT ![t].wrote = @ \cup {Len(messages) + 1},
                            ![t].assistantAt = AssistantCreatedAt(now),
                            ![t].pc = "persistAssistant"]
  /\ UNCHANGED <<now, budget, conversations, summaries, agentState,
                 workflows, lastUpdate, rlVars, schemaVars, storeVars, otherVars>>

\* this.setState({...agentState, conversationId, lastUpdated}) of handleMessage
TurnState(snapshot, conversationId, t) ==
  [snapshot EXCEPT !.conversationId = Some(conversationId),
                   !.lastUpdated = Some(ToISOString(t))]

\* handleMessage that stores its reply as the summary of the conversation
SummariesAfterTurnWritten(tbl, turn) ==
  PersistSummary(tbl, turn.conv, turn.reply, turn.assistantAt)

\* conversation_summaries after the statements of a turn: handleMessage
\* issues the SELECT of fetchSummary on it and no other statement
SummariesAfterTurn(tbl, turn) == tbl

\* await persistMessage(..., "assistant", reply, ...) completes; setState
\* runs and CHAT_WORKFLOW.create is issued
PersistAssistantDone(t) ==
  /\ turns[t].pc = "persistAssistant"
  /\ messages' = PersistMessage(messages, turns[t].conv, "assistant",
                                turns[t].reply, turns[t].assistantAt)
  /\ summaries' = SummariesAfterTurn(summaries, turns[t])
  /\ agentState' = [agentState EXCEPT ![turns[t].conv] =
                      TurnState(turns[t].agentState, turns[t].conv, now)]
  /\ turns' = [turns EXCEPT ![t].wrote = @ \cup {Len(messages) + 1},
                            ![t].stateWrites = @ + 1,
                            ![t].pc = "enqueue"]
  /\ UNCHANGED <<now, budget, conversations, workflows,
                 lastUpdate, rlVars, schemaVars, storeVars, otherVars>>

\* id: `${conversationId}-${createdAt}`
WorkflowId(conversationId, createdAt) == <<conversationId, createdAt>>

\* the body handleMessage returns
TurnResponse(turn) ==
  [conversationId |-> turn.conv,
   reply          |-> turn.reply,
   summary        |-> IF turn.summaryRecord = None THEN None
                      ELSE Some(turn.summaryRecord[1].summary),
   metadata       |-> Spread([messageCount |-> Len(turn.history) + 2,
                              receivedAt   |-> ToISOString(turn.createdAt)],
                             turn.metadata)]

\* handleMessage without the try/catch around CHAT_WORKFLOW.create
AfterEnqueueUncaught(turn, created) ==
  IF created
  THEN [turn EXCEPT !.enqueue = "created", !.pc = "done", !.outcome = "ok",
                    !.response = Some(TurnResponse(turn))]
  ELSE [turn EXCEPT !.enqueue = "failed", !.pc = "done", !.outcome = "threw",
                    !.error = "workflow create rejected"]

\* handleMessage that waits for the run of the instance it created
AfterEnqueueAwaited(turn, created) ==
  IF created
  THEN [turn EXCEPT !.enqueue = "created", !.pc = "awaitRun"]
  ELSE [turn EXCEPT !.enqueue = "failed", !.pc = "done", !.outcome = "ok",
                    !.response = Some(TurnResponse(turn))]

\* the turn after CHAT_WORKFLOW.create settled: a rejection is caught and
\* logged, the response is returned either way
AfterEnqueue(turn, created) ==
  [turn EXCEPT !.enqueue = IF created THEN "created" ELSE "failed",
               !.pc = "done", !.outcome = "ok",
               !.response = Some(TurnResponse(turn))]

\* await this.env.CHAT_WORKFLOW.create(...) settles: it rejects when the
\* service fails or an instance of that id exists
EnqueueDone(t) ==
  /\ turns[t].pc = "enqueue"
  /\ \E up \in BOOLEAN :
       LET id == WorkflowId(turns[t].conv, turns[t].createdAt)
           created == up /\ id \notin workflows
       IN /\ workflows' = IF created THEN workflows \cup {id} ELSE workflows
          /\ turns' = [turns EXCEPT ![t] = AfterEnqueue(turns[t], created)]
  /\ UNCHANGED <<now, budget, conversations, messages, summaries, agentState,
                 lastUpdate, rlVars, schemaVars, storeVars, otherVars>>

\* the bodies agentStateUpdateSchema accepts, for the agent of conversation c
SummaryTexts == {<<"s">>, <<"t">>}

\* factLines.slice(0, 5)
MaxPinnedFacts == 5

\* pinnedFacts: z.array(z.string()).optional() accepts an array of any length
FactLists == {<<>>, <<"f">>, [i \in 1..(MaxPinnedFacts + 1) |-> "f"]}

Updates(c) ==
  [conversationId : {c},
   summary        : {None} \cup {Some(s) : s \in SummaryTexts},
   pinnedFacts    : {None} \cup {Some(f) : f \in FactLists},
   lastUpdated    : {None, Some(ToISOString(0))}]

\* the merge with the update's fields taken as they are
ApplyStateUpdateOverwrite(current, update, t) ==
  [current EXCEPT
     !.conversationId = Some(update.conversationId),
     !.summary        = update.summary,
     !.pinnedFacts    = IF update.pinnedFacts # None
                        THEN update.pinnedFacts[1] ELSE <<>>,
     !.lastUpdated    = IF update.lastUpdated # None
                        THEN update.lastUpdated ELSE Some(ToISOString(t))]

\* the object onRequest hands to setState for POST /agent/state
ApplyStateUpdate(current, update, t) ==
  [current EXCEPT
     !.conversationId = Some(update.conversationId),
     !.summary        = IF update.summary # None
                        THEN update.summary ELSE current.summary,
     !.pinnedFacts    = IF update.pinnedFacts # None
                        THEN update.pinnedFacts[1] ELSE current.pinnedFacts,
     !.lastUpdated    = IF update.lastUpdated # None
                        THEN update.lastUpdated ELSE Some(ToISOString(t))]

\* POST /agent/state at the agent of conversation c (no await inside)
OnRequestAgentState(c, update) ==
  /\ budget.updates > 0
  /\ budget' = [budget EXCEPT !.updates = @ - 1]
  /\ agentState' = [agentState EXCEPT ![c] =
                      ApplyStateUpdate(GetSafeState(agentState[c]), update, now)]
  /\ lastUpdate' = Some([conv |-> c, update |-> update, at |-> now,
                         before |-> agentState[c]])
  /\ UNCHANGED <<now, conversations, messages, summaries, turns, workflows,
                 rlVars, schemaVars, storeVars, otherVars>>

\* time passes
Tick ==
  /\ now < MaxNow
  /\ now' = now + 1
  /\ UNCHANGED <<budget, agentVars, rlVars, schemaVars, storeVars, otherVars>>

----------------------------------------------------------------------------
(* extractPinnedFacts.                                                     *)

\* summary.split("\n")
RECURSIVE Split(_)
Split(s) ==
  IF \A i \in 1..Len(s) : s[i] # Newline
  THEN <<s>>
  ELSE LET i == CHOOSE k \in 1..Len(s) :
                  s[k] = Newline /\ \A j \in 1..(k - 1) : s[j] # Newline
       IN <<SubSeq(s, 1, i - 1)>> \o Split(SubSeq(s, i + 1, Len(s)))

\* [-*]
Markers == {"-", "*"}

\* the number of whitespace characters s starts with
RECURSIVE LeadingWhitespace(_)
LeadingWhitespace(s) ==
  IF s # <<>> /\ Head(s) \in Whitespace
  THEN 1 + LeadingWhitespace(Tail(s)) ELSE 0

\* the length of the match of /^\s*[-*]\s+/u in s, 0 when it does not match
BulletMatch(s) ==
  LET lead == LeadingWhitespace(s)
      rest == SubSeq(s, lead + 1, Len(s))
  IN IF rest # <<>> /\ Head(rest) \in Markers
        /\ LeadingWhitespace(Tail(rest)) >= 1
     THEN lead + 1 + LeadingWhitespace(Tail(rest))
     ELSE 0

\* line.replace(/^\s*[-*]\s+/u, "")
StripBullet(line) == SubSeq(line, BulletMatch(line) + 1, Len(line))

\* extractPinnedFacts without the slice
ExtractPinnedFactsUncapped(summary) ==
  LET factLines == SelectSeq(Split(summary),
                             LAMBDA line : BulletMatch(Trim(line)) > 0)
  IN [i \in 1..Len(factLines) |-> StripBullet(factLines[i])]

\* extractPinnedFacts: split, filter on the trimmed line, slice(0, 5), replace
\* on the line itself
ExtractPinnedFacts(summary) ==
  LET factLines == SelectSeq(Split(summary),
                             LAMBDA line : BulletMatch(Trim(line)) > 0)
  IN [i \in 1..Min(MaxPinnedFacts, Len(factLines)) |->
        StripBullet(factLines[i])]

\* the lines a summary is made of: bullets with either marker, an indented
\* bullet with trailing whitespace, a heading, a marker with no whitespace
\* after it and a marker with nothing but whitespace after it
SummaryLines ==
  { <<"-", " ", "a">>,
    <<"*", " ", "b">>,
    <<" ", "-", " ", " ", "c", " ">>,
    <<"#", " ", "h">>,
    <<"-", "d">>,
    <<"-", " ">> }

\* a summary text grows by one line
WriteLine(line) ==
  /\ budget.lines > 0
  /\ budget' = [budget EXCEPT !.lines = @ - 1]
  /\ extraction' =
       IF extraction = None
       THEN Some([text |-> line, lines |-> <<line>>, facts |-> None])
       ELSE Some([text  |-> extraction[1].text \o <<Newline>> \o line,
                  lines |-> Append(extraction[1].lines, line),
                  facts |-> None])
  /\ UNCHANGED <<now, agentVars, rlVars, schemaVars, storeVars, pipeVars,
                 gateVars>>

\* extractPinnedFacts(summary) on the text at hand
Extract ==
  /\ extraction # None
  /\ extraction[1].facts = None
  /\ extraction' = Some([extraction[1] EXCEPT
                           !.facts = Some(ExtractPinnedFacts(extraction[1].text))])
  /\ UNCHANGED <<now, budget, agentVars, rlVars, schemaVars, storeVars,
                 pipeVars, gateVars>>

----------------------------------------------------------------------------
(* ConversationWorkflow.run: the summarization pipeline.  step.do records   *)
(* the result of a callback that completed and runs a callback that threw  *)
(* again, as long as the step has retries left (no step of run() passes a  *)
(* retry configuration or throws a NonRetryableError).  The attempts of    *)
(* the summarize step are modelled one by one, budget.retries being the    *)
(* retries left; a failure of another step stands for its last attempt.    *)
(* When the platform interrupts an instance it invokes run() again: the    *)
(* steps that completed hand back their recorded results and the code      *)
(* between the steps executes again.                                       *)

\* maxMessages = 25
PipelineMaxMessages == 25

\* what env.AI.run can hand back to the summarize step
SummaryAiResults ==
  { [kind |-> "response", text |-> <<"s">>],
    [kind |-> "response", text |-> <<"-", " ", "f">>],
    [kind |-> "response", text |-> <<" ">>],
    [kind |-> "response", text |-> <<>>],
    [kind |-> "throws",   text |-> <<>>] }

RunIds == 1..Len(runs)

\* the platform starts run() of an instance for conversation c
RunStart(c) ==
  /\ budget.runs > 0
  /\ budget' = [budget EXCEPT !.runs = @ - 1]
  /\ runs' = Append(runs,
       [conv |-> c, maxMessages |-> PipelineMaxMessages, pc |-> "fetch",
        fetched |-> FALSE, history |-> <<>>, aiCalls |-> 0, summary |-> <<>>,
        updatedAt |-> 0, persisted |-> FALSE, persistedAt |-> 0, syncs |-> 0,
        failedAt |-> "",
        outcome |-> "none", gotEmpty |-> FALSE, interruptedAt |-> "",
        execs |-> [fetch |-> 0, summarize |-> 0, persist |-> 0, sync |-> 0]])
  /\ UNCHANGED <<now, agentVars, rlVars, schemaVars, storeVars, gateVars,
                 factVars>>

\* the platform starts run() of an instance that a turn of conversation c
\* created and that has not started yet
InstanceStarts(c) ==
  /\ Cardinality({r \in RunIds : runs[r].conv = c})
       < Cardinality({id \in workflows : id[1] = c})
  /\ RunStart(c)

\* run() without the return on an empty history
AfterFetchUnchecked(run, history) ==
  [run EXCEPT !.fetched = TRUE, !.history = history, !.aiCalls = @ + 1,
              !.execs.fetch = @ + 1, !.pc = "summarize"]

\* run() after the fetch step: return on an empty history, else the
\* summarize step calls env.AI.run
AfterFetch(run, history) ==
  IF Len(history) = 0
  THEN [run EXCEPT !.fetched = TRUE, !.history = history,
                   !.execs.fetch = @ + 1, !.pc = "done", !.outcome = "ok"]
  ELSE [run EXCEPT !.fetched = TRUE, !.history = history, !.aiCalls = @ + 1,
                   !.execs.fetch = @ + 1, !.pc = "summarize"]

\* step "fetch recent messages" completes
FetchStepDone(r) ==
  /\ runs[r].pc = "fetch"
  /\ \E history \in FetchMessages(messages, runs[r].conv, runs[r].maxMessages) :
       runs' = [runs EXCEPT ![r] = AfterFetch(runs[r], history)]
  /\ UNCHANGED <<now, budget, agentVars, rlVars, schemaVars, storeVars,
                 gateVars, factVars>>

\* (result as { response }).response ?? (result as { output_text }).output_text
\* ?? ""
SummaryText(result) ==
  IF result.kind \in {"response", "output_text"} THEN result.text ELSE <<>>

\* the callback of the summarize step throws: env.AI.run threw, or !text
SummarizeThrows(result) ==
  result.kind = "throws" \/ SummaryText(result) = <<>>

\* run() that posts the summary to the agent without the persist step
AfterSummarizeUnpersisted(run, result, t, retry) ==
  IF SummarizeThrows(result)
  THEN [run EXCEPT !.pc = "done", !.outcome = "failed",
                   !.failedAt = "summarize"]
  ELSE [run EXCEPT !.summary = Trim(SummaryText(result)), !.updatedAt = t,
                   !.execs.summarize = @ + 1, !.pc = "sync"]

\* the summarize step after env.AI.run settled: a throw makes step.do run
\* the callback again (env.AI.run is called again) if the step has a retry
\* left and makes it fail if not; else the trimmed text is the step's
\* result and updatedAt = Date.now()
AfterSummarize(run, result, t, retry) ==
  LET seen == [run EXCEPT !.gotEmpty =
                 @ \/ (result.kind # "throws" /\ SummaryText(result) = <<>>)]
  IN IF SummarizeThrows(result)
     THEN IF retry
          THEN [seen EXCEPT !.aiCalls = @ + 1]
          ELSE [seen EXCEPT !.pc = "done", !.outcome = "failed",
                            !.failedAt = "summarize"]
     ELSE [seen EXCEPT !.summary = Trim(SummaryText(result)),
                       !.updatedAt = t, !.execs.summarize = @ + 1,
                       !.pc = "persist"]

\* an attempt of step "summarize conversation" settles
SummarizeStepDone(r) ==
  /\ runs[r].pc = "summarize"
  /\ \E result \in SummaryAiResults :
       LET retry == budget.retries > 0
       IN /\ runs' = [runs EXCEPT ![r] =
                        AfterSummarize(runs[r], result, now, retry)]
          /\ budget' = IF SummarizeThrows(result) /\ retry
                       THEN [budget EXCEPT !.retries = @ - 1]
                       ELSE budget
  /\ UNCHANGED <<now, agentVars, rlVars, schemaVars, storeVars,
                 gateVars, factVars>>

\* step "persist summary" completes
PersistStepDone(r) ==
  /\ runs[r].pc = "persist"
  /\ summaries' = PersistSummary(summaries, runs[r].conv, runs[r].summary,
                                 runs[r].updatedAt)
  /\ runs' = [runs EXCEPT ![r].persisted = TRUE,
                          ![r].persistedAt = runs[r].updatedAt,
                          ![r].execs.persist = @ + 1, ![r].pc = "sync"]
  /\ UNCHANGED <<now, budget, conversations, messages, agentState, turns,
                 workflows, lastUpdate, rlVars, schemaVars, storeVars,
                 gateVars, factVars>>

\* the body the sync step posts to /agent/state
SyncUpdate(run) ==
  [conversationId |-> run.conv,
   summary        |-> Some(run.summary),
   pinnedFacts    |-> Some(ExtractPinnedFacts(run.summary)),
   lastUpdated    |-> Some(ToISOString(run.updatedAt))]

\* a run that goes back to its persist step when the sync step fails
AfterSyncRedo(run, delivered) ==
  IF delivered
  THEN [run EXCEPT !.syncs = @ + 1, !.execs.sync = @ + 1, !.pc = "done",
                   !.outcome = "ok"]
  ELSE [run EXCEPT !.pc = "persist"]

\* run() after the sync step settled: it returns, or the step's error ends it
AfterSync(run, delivered) ==
  IF delivered
  THEN [run EXCEPT !.syncs = @ + 1, !.execs.sync = @ + 1, !.pc = "done",
                   !.outcome = "ok"]
  ELSE [run EXCEPT !.pc = "done", !.outcome = "failed", !.failedAt = "sync"]

\* step "sync agent state" settles: the agent handled POST /agent/state, or
\* the call failed before the agent saw it
SyncStepDone(r) ==
  /\ runs[r].pc = "sync"
  /\ \E delivered \in BOOLEAN :
       /\ runs' = [runs EXCEPT ![r] = AfterSync(runs[r], delivered)]
       /\ IF delivered
          THEN /\ agentState' = [agentState EXCEPT ![runs[r].conv] =
                    ApplyStateUpdate(GetSafeState(agentState[runs[r].conv]),
                                     SyncUpdate(runs[r]), now)]
               /\ lastUpdate' = Some([conv |-> runs[r].conv,
                                      update |-> SyncUpdate(runs[r]),
                                      at |-> now,
                                      before |-> agentState[runs[r].conv]])
          ELSE UNCHANGED <<agentState, lastUpdate>>
  /\ UNCHANGED <<now, budget, conversations, messages, summaries, turns,
                 workflows, rlVars, schemaVars, storeVars, gateVars, factVars>>

\* run() invoked again from its first line, no step result being recorded
ResumeFromStart(run, t) ==
  [run EXCEPT !.interruptedAt = run.pc, !.pc = "fetch"]

\* run() invoked again after an interruption, up to the first step that has
\* no recorded result: the awaits of the completed steps resolve with the
\* recorded results, and const updatedAt = Date.now() executes again when
\* the summarize step is among them
Resume(run, t) ==
  [run EXCEPT !.interruptedAt = run.pc,
              !.updatedAt = IF run.pc \in {"persist", "sync"} THEN t ELSE @]

\* the platform interrupts the instance between two steps and resumes it
RunInterrupted(r) ==
  /\ budget.crashes > 0
  /\ runs[r].pc # "done"
  /\ budget' = [budget EXCEPT !.crashes = @ - 1]
  /\ runs' = [runs EXCEPT ![r] = Resume(runs[r], now)]
  /\ UNCHANGED <<now, agentVars, rlVars, schemaVars, storeVars, gateVars,
                 factVars>>

----------------------------------------------------------------------------
(* RateLimiter: enforceRateLimit over the RATE_LIMITER KV namespace.       *)

RATE_LIMIT_REQUESTS  == 30
RATE_LIMIT_WINDOW_MS == 60000
MsPerSecond          == 1000
MinTtlSeconds        == 60

Max(a, b) == IF a >= b THEN a ELSE b

\* Math.ceil(a / b) for a >= 0
CeilDiv(a, b) == (a + b - 1) \div b

\* JSON.stringify({ count, reset }) and the get(key, { type: "json" }) of it
JSONStringify(record) == <<"count", record.count, "reset", record.reset>>
JSONParse(text) == [count |-> text[2], reset |-> text[4]]

\* KV get: the stored value, null once the entry's expirationTtl has run out
KVGet(entry, t) ==
  IF entry = None \/ entry[1].expiresAt <= t
  THEN None ELSE Some(JSONParse(entry[1].value))

\* KV put with { expirationTtl }
KVPut(value, ttlSeconds, t) ==
  Some([value |-> value, expiresAt |-> t + ttlSeconds * MsPerSecond])

\* the limiter with the comparison count > limit
EnforceRateLimitLate(record, t, windowEnd, ttlSeconds, limit) ==
  IF record = None \/ record[1].reset < t
  THEN [allow |-> TRUE, opened |-> TRUE,
        put |-> Some([value |-> JSONStringify([count |-> 1, reset |-> windowEnd]),
                      ttl |-> ttlSeconds])]
  ELSE IF record[1].count > limit
  THEN [allow |-> FALSE, opened |-> FALSE, put |-> None]
  ELSE [allow |-> TRUE, opened |-> FALSE,
        put |-> Some([value |-> JSONStringify([count |-> record[1].count + 1,
                                               reset |-> record[1].reset]),
                      ttl |-> Max(CeilDiv(record[1].reset - t, MsPerSecond),
                                  MinTtlSeconds)])]

\* the limiter with the comparison count >= limit - 1
EnforceRateLimitEarly(record, t, windowEnd, ttlSeconds, limit) ==
  IF record = None \/ record[1].reset < t
  THEN [allow |-> TRUE, opened |-> TRUE,
        put |-> Some([value |-> JSONStringify([count |-> 1, reset |-> windowEnd]),
                      ttl |-> ttlSeconds])]
  ELSE IF record[1].count >= limit - 1
  THEN [allow |-> FALSE, opened |-> FALSE, put |-> None]
  ELSE [allow |-> TRUE, opened |-> FALSE,
        put |-> Some([value |-> JSONStringify([count |-> record[1].count + 1,
                                               reset |-> record[1].reset]),
                      ttl |-> Max(CeilDiv(record[1].reset - t, MsPerSecond),
                                  MinTtlSeconds)])]

\* the limiter that writes count + 1 with a window end counted from the call
EnforceRateLimitSliding(record, t, windowEnd, ttlSeconds, limit) ==
  IF record = None \/ record[1].reset < t
  THEN [allow |-> TRUE, opened |-> TRUE,
        put |-> Some([value |-> JSONStringify([count |-> 1, reset |-> windowEnd]),
                      ttl |-> ttlSeconds])]
  ELSE IF record[1].count >= limit
  THEN [allow |-> FALSE, opened |-> FALSE, put |-> None]
  ELSE [allow |-> TRUE, opened |-> FALSE,
        put |-> Some([value |-> JSONStringify([count |-> record[1].count + 1,
                                               reset |-> windowEnd]),
                      ttl |-> ttlSeconds])]

\* enforceRateLimit after the get resolved with `record`: what it returns
\* and the put it issues first (t, windowEnd and ttlSeconds are the values
\* computed at the start of the call)
EnforceRateLimit(record, t, windowEnd, ttlSeconds, limit) ==
  IF record = None \/ record[1].reset < t
  THEN [allow |-> TRUE, opened |-> TRUE,
        put |-> Some([value |-> JSONStringify([count |-> 1, reset |-> windowEnd]),
                      ttl |-> ttlSeconds])]
  ELSE IF record[1].count >= limit
  THEN [allow |-> FALSE, opened |-> FALSE, put |-> None]
  ELSE [allow |-> TRUE, opened |-> FALSE,
        put |-> Some([value |-> JSONStringify([count |-> record[1].count + 1,
                                               reset |-> record[1].reset]),
                      ttl |-> Max(CeilDiv(record[1].reset - t, MsPerSecond),
                                  MinTtlSeconds)])]

RlIds == 1..Len(rlCalls)

RlInFlight(key) == {i \in RlIds : rlCalls[i].key = key /\ rlCalls[i].pc # "done"}

\* the invocations, with one more that has run up to its await of the get:
\* now = Date.now(), windowEnd and ttlSeconds are computed, the get is issued
StartCall(calls, key, t, params) ==
  LET overlap == {i \in 1..Len(calls) :
                    calls[i].key = key /\ calls[i].pc # "done"}
      call == [key |-> key, pc |-> "get", now |-> t,
               windowEnd |-> t + params.windowMs,
               ttlSeconds |-> Max(CeilDiv(params.windowMs, MsPerSecond),
                                  MinTtlSeconds),
               record |-> None, put |-> None, opened |-> FALSE,
               result |-> None, doneAt |-> 0, overlapped |-> overlap # {}]
  IN Append([i \in 1..Len(calls) |->
               IF i \in overlap THEN [calls[i] EXCEPT !.overlapped = TRUE]
               ELSE calls[i]],
            call)

\* enforceRateLimit(env, key, limit, windowMs) up to its await of the get
EnforceRateLimitStart(key) ==
  /\ budget.calls > 0
  /\ budget' = [budget EXCEPT !.calls = @ - 1]
  /\ rlCalls' = StartCall(rlCalls, key, now, rlParams)
  /\ UNCHANGED <<now, kv, rlParams, agentVars, schemaVars, storeVars, otherVars>>

\* await env.RATE_LIMITER.get(...) resolves: false is returned or a put issued
EnforceRateLimitGetDone(i) ==
  /\ rlCalls[i].pc = "get"
  /\ LET record == KVGet(kv[rlCalls[i].key], now)
         d == EnforceRateLimit(record, rlCalls[i].now, rlCalls[i].windowEnd,
                              rlCalls[i].ttlSeconds, rlParams.limit)
     IN rlCalls' = [rlCalls EXCEPT
                      ![i].record = record,
                      ![i].opened = d.opened,
                      ![i].put = d.put,
                      ![i].pc = IF d.put = None THEN "done" ELSE "put",
                      ![i].doneAt = now,
                      ![i].result = IF d.put = None THEN Some(d.allow) ELSE None]
  /\ UNCHANGED <<now, budget, kv, rlParams, agentVars, schemaVars, storeVars, otherVars>>

\* await env.RATE_LIMITER.put(...) resolves: true is returned
EnforceRateLimitPutDone(i) ==
  /\ rlCalls[i].pc = "put"
  /\ kv' = [kv EXCEPT ![rlCalls[i].key] =
              KVPut(rlCalls[i].put[1].value, rlCalls[i].put[1].ttl, now)]
  /\ rlCalls' = [rlCalls EXCEPT ![i].pc = "done", ![i].doneAt = now,
                                ![i].result = Some(TRUE)]
  /\ UNCHANGED <<now, budget, rlParams, agentVars, schemaVars, storeVars, otherVars>>

\* time passes: within a window, or by a full minute
TickSteps == {500, 60000}

\* time passes: within a window, or to the very end of a one-second window
BoundarySteps == {500, 1000}

TickLimit(d) ==
  /\ budget.ticks > 0
  /\ budget' = [budget EXCEPT !.ticks = @ - 1]
  /\ now' = now + d
  /\ UNCHANGED <<agentVars, rlVars, schemaVars, storeVars, otherVars>>

----------------------------------------------------------------------------
(* Schema bootstrap: ensureSchema and the module variable schemaReady.     *)

\* MIGRATION_STATEMENTS.length
NumStatements == 3

InitIds   == 1..Len(inits)
CallerIds == 1..Len(callers)

LiveInits == {p \in InitIds : inits[p].state \in {"pending", "fulfilled"}}

\* an initializer that starts whatever schemaReady holds
ShouldInitAlways(ready) == TRUE

\* if (!schemaReady)
ShouldInit(ready) == ready = None

\* the async initializer up to its await of statement n:
\* db.prepare(statement).run() either hands back a promise or throws at
\* once; the throw is caught, the catch sets schemaReady = null and rethrows
IssueStatement(n, issued) ==
  IF issued
  THEN [init |-> [state |-> "pending", stmt |-> n], cleared |-> FALSE]
  ELSE [init |-> [state |-> "rejected", stmt |-> n], cleared |-> TRUE]

\* ensureSchema(db) up to `await schemaReady`
EnsureSchemaCall ==
  /\ budget.callers > 0
  /\ budget' = [budget EXCEPT !.callers = @ - 1]
  /\ IF ShouldInit(schemaReady)
     THEN \E issued \in BOOLEAN :
            LET p == Len(inits) + 1
                r == IssueStatement(1, issued)
            IN \* the initializer has run to its first await (or to its
               \* catch) when its promise is assigned to schemaReady
               /\ inits' = Append(inits, r.init)
               /\ schemaReady' = Some(p)
               /\ callers' = Append(callers,
                    [pc |-> "awaiting", awaits |-> p, started |-> TRUE,
                     live |-> LiveInits])
     ELSE /\ callers' = Append(callers,
               [pc |-> "awaiting", awaits |-> schemaReady[1],
                started |-> FALSE, live |-> LiveInits])
          /\ UNCHANGED <<schemaReady, inits>>
  /\ UNCHANGED <<now, tables, agentVars, rlVars, storeVars, otherVars>>

\* the run() awaited by initializer p settles; the loop goes on to the next
\* statement, the initializer returns, or its catch clears schemaReady
StatementSettles(p) ==
  /\ inits[p].state = "pending"
  /\ \E resolved \in BOOLEAN, issued \in BOOLEAN :
       LET n == inits[p].stmt
       IN IF resolved
          THEN /\ tables' = tables \cup {n}
               /\ IF n = NumStatements
                  THEN /\ inits' = [inits EXCEPT ![p].state = "fulfilled"]
                       /\ UNCHANGED schemaReady
                  ELSE LET r == IssueStatement(n + 1, issued)
                       IN /\ inits' = [inits EXCEPT ![p] = r.init]
                          /\ schemaReady' =
                               IF r.cleared THEN None ELSE schemaReady
          ELSE /\ inits' = [inits EXCEPT ![p].state = "rejected"]
               /\ schemaReady' = None
               /\ UNCHANGED tables
  /\ UNCHANGED <<now, budget, callers, agentVars, rlVars, storeVars, otherVars>>

\* `await schemaReady` of caller k settles
EnsureSchemaReturns(k) ==
  /\ callers[k].pc = "awaiting"
  /\ inits[callers[k].awaits].state # "pending"
  /\ callers' = [callers EXCEPT ![k].pc =
                   IF inits[callers[k].awaits].state = "fulfilled"
                   THEN "returned" ELSE "threw"]
  /\ UNCHANGED <<now, budget, schemaReady, inits, tables, agentVars, rlVars,
                 storeVars, otherVars>>

----------------------------------------------------------------------------
(* Request gateway: the fetch handler's POST /api/chat and GET             *)
(* /api/history.  The requests arrive after ensureSchema has completed.    *)

MAX_MESSAGE_LENGTH == 2000

\* fetchMessages(env.CONVERSATION_DB, conversationId, 50)
HistoryPageSize == 50

\* z.string().uuid(): the ids of the model's conversations are well formed
IsUuid(id) == id \in Convs

\* /^[A-Za-z0-9+/=]+$/
Base64Chars == {"A", "="}
IsBase64(s) == s # <<>> /\ \A i \in 1..Len(s) : s[i] \in Base64Chars

\* a parse that accepts every body
ParseChatRequestUnchecked(body) == Some(body)

\* chatRequestSchema.parse: the parsed body, or none when it throws
ParseChatRequest(body) ==
  LET message == IF body.message = None THEN None
                 ELSE Some(Trim(body.message[1]))
      voice   == IF body.voice = None THEN None
                 ELSE Some(Trim(body.voice[1]))
      valid   ==
        /\ body.conversationId # None => IsUuid(body.conversationId[1])
        /\ message # None =>
             Len(message[1]) >= 1 /\ Len(message[1]) <= MAX_MESSAGE_LENGTH
        /\ voice # None => IsBase64(voice[1])
        /\ message # None \/ voice # None
  IN IF valid
     THEN Some([body EXCEPT !.message = message, !.voice = voice])
     ELSE None

LongMessage == [i \in 1..(MAX_MESSAGE_LENGTH + 1) |-> "x"]

\* the JSON bodies clients post to /api/chat
ChatBody(conversationId, message, voice, metadata) ==
  [conversationId |-> conversationId, message |-> message, voice |-> voice,
   metadata |-> metadata]

ChatBodies ==
  { ChatBody(None, Some(<<"h">>), None, NoMetadata),
    ChatBody(None, Some(<<"h">>), None, [messageCount |-> 99]),
    ChatBody(Some("c2"), Some(<<" ", "h">>), None, NoMetadata),
    ChatBody(Some("c1"), Some(<<"h">>), None, NoMetadata),
    ChatBody(Some("c1"), None, Some(<<"A", "=">>), NoMetadata),
    ChatBody(None, None, Some(<<"A", "=">>), NoMetadata),
    ChatBody(None, None, None, NoMetadata),
    ChatBody(None, Some(<<" ">>), None, NoMetadata),
    ChatBody(None, Some(LongMessage), None, NoMetadata),
    ChatBody(Some("not-a-uuid"), Some(<<"h">>), None, NoMetadata) }

ContentTypes == {"application/json", "text/plain"}

\* a request as fetch receives it
NewRequest(kind, contentType, body, ip) ==
  [kind |-> kind, contentType |-> contentType, body |-> body, ip |-> ip,
   pc |-> "start", parsed |-> None, rl |-> 0, transcriptions |-> 0,
   message |-> None, conv |-> None, minted |-> FALSE, turn |-> 0,
   status |-> 0, response |-> None, summary |-> None, seen |-> {}]

\* jsonResponse(body, { status })
Respond(req, status, body) ==
  [req EXCEPT !.pc = "done", !.status = status, !.response = Some(body)]

\* the catch of fetch around handleChatRequest
ChatHandlerError(req, details) ==
  Respond(req, 500, [error   |-> "Unable to process chat request",
                     details |-> details])

\* body.conversationId ?? request.headers.get("CF-Connecting-IP") ??
\* crypto.randomUUID()
KeySeed(body, ip, n) ==
  IF body.conversationId # None THEN body.conversationId[1]
  ELSE IF ip # None THEN ip[1]
  ELSE RandomSeed(n)

RequestIds == 1..Len(requests)

\* POST /api/chat arrives: the content-type check, chatRequestSchema.parse
\* and enforceRateLimit up to its first await
ChatStart(contentType, body, ip) ==
  /\ budget.chats > 0
  /\ budget' = [budget EXCEPT !.chats = @ - 1]
  /\ LET req    == NewRequest("chat", contentType, body, ip)
         parsed == ParseChatRequest(body)
         n      == MaxChats - budget.chats + 1
     IN IF contentType # "application/json"
        THEN /\ requests' = Append(requests,
                  Respond(req, 415,
                          [error |-> "Content-Type must be application/json"]))
             /\ UNCHANGED rlCalls
        ELSE IF parsed = None
        THEN /\ requests' = Append(requests, ChatHandlerError(req, "ZodError"))
             /\ UNCHANGED rlCalls
        ELSE /\ rlCalls' = StartCall(rlCalls,
                                     RateKey(KeySeed(parsed[1], ip, n)), now,
                                     [limit    |-> RATE_LIMIT_REQUESTS,
                                      windowMs |-> RATE_LIMIT_WINDOW_MS])
             /\ requests' = Append(requests,
                  [req EXCEPT !.pc = "rateLimit", !.parsed = parsed,
                              !.rl = Len(rlCalls) + 1])
  /\ UNCHANGED <<now, agentVars, kv, rlParams, schemaVars, storeVars,
                 pipeVars, factVars>>

\* handleChatRequest that goes on whatever enforceRateLimit returned
AfterRateLimitUnchecked(req, allowed) ==
  IF req.parsed[1].message = None /\ req.parsed[1].voice # None
  THEN [req EXCEPT !.pc = "transcribe", !.transcriptions = @ + 1]
  ELSE [req EXCEPT !.pc = "forward", !.message = req.parsed[1].message]

\* handleChatRequest after enforceRateLimit returned: 429, or the voice is
\* given to transcribeVoice (which calls env.AI.run), or the message is on
\* its way to the agent
AfterRateLimit(req, allowed) ==
  IF ~allowed
  THEN Respond(req, 429, [error        |-> "Rate limit exceeded. Please slow down.",
                          retryAfterMs |-> RATE_LIMIT_WINDOW_MS])
  ELSE IF req.parsed[1].message = None /\ req.parsed[1].voice # None
  THEN [req EXCEPT !.pc = "transcribe", !.transcriptions = @ + 1]
  ELSE [req EXCEPT !.pc = "forward", !.message = req.parsed[1].message]

\* await enforceRateLimit(...) settles
RateLimitReturns(q) ==
  /\ requests[q].pc = "rateLimit"
  /\ rlCalls[requests[q].rl].pc = "done"
  /\ requests' = [requests EXCEPT ![q] =
                    AfterRateLimit(requests[q], rlCalls[requests[q].rl].result[1])]
  /\ UNCHANGED <<now, budget, agentVars, rlVars, schemaVars, storeVars,
                 pipeVars, factVars>>

\* what env.AI.run can hand back to transcribeVoice
TranscriptionResults ==
  { [kind |-> "text",    text |-> <<"h">>],
    [kind |-> "text",    text |-> <<" ">>],
    [kind |-> "missing", text |-> <<>>],
    [kind |-> "throws",  text |-> <<>>] }

\* handleChatRequest after transcribeVoice settled: text ?? transcription,
\* throw on a falsy text, else the trimmed text; 400 when that is empty
AfterTranscribe(req, result) ==
  IF result.kind = "throws"
  THEN ChatHandlerError(req, "AI.run rejected")
  ELSE IF result.kind = "missing" \/ result.text = <<>>
  THEN ChatHandlerError(req, "Unable to transcribe audio input")
  ELSE IF Trim(result.text) = <<>>
  THEN Respond(req, 400, [error |-> "No valid message content was provided"])
  ELSE [req EXCEPT !.pc = "forward", !.message = Some(Trim(result.text))]

\* await transcribeVoice(...) settles
TranscribeDone(q) ==
  /\ requests[q].pc = "transcribe"
  /\ \E result \in TranscriptionResults :
       requests' = [requests EXCEPT ![q] = AfterTranscribe(requests[q], result)]
  /\ UNCHANGED <<now, budget, agentVars, rlVars, schemaVars, storeVars,
                 pipeVars, factVars>>

\* the ids crypto.randomUUID() can return: ids nothing has used yet
UnusedConvs ==
  {c \in Convs :
     /\ conversations[c] = None
     /\ \A t \in 1..Len(turns) : turns[t].conv # c
     /\ \A i \in 1..Len(messages) : messages[i].conversationId # c
     /\ \A q \in RequestIds :
          /\ requests[q].conv # Some(c)
          /\ requests[q].body.conversationId # Some(c)}

\* conversationId = body.conversationId ?? crypto.randomUUID(); the agent of
\* that id receives POST /agent/message and handleMessage starts
AgentReceives(q, c) ==
  /\ requests[q].pc = "forward"
  /\ IF requests[q].parsed[1].conversationId # None
     THEN c = requests[q].parsed[1].conversationId[1]
     ELSE c \in UnusedConvs
  /\ turns' = Append(turns, NewTurn(c, requests[q].message[1],
                                    requests[q].parsed[1].metadata, now,
                                    agentState[c]))
  /\ requests' = [requests EXCEPT
                    ![q].pc = "agent", ![q].conv = Some(c),
                    ![q].minted = (requests[q].parsed[1].conversationId = None),
                    ![q].turn = Len(turns) + 1]
  /\ UNCHANGED <<now, budget, conversations, messages, summaries, agentState,
                 workflows, lastUpdate, rlVars, schemaVars, storeVars,
                 pipeVars, factVars>>

\* handleChatRequest after the agent answered: its response is passed on; a
\* handleMessage that threw ends in the catch of fetch
AfterAgent(req, turn) ==
  IF turn.outcome = "ok"
  THEN Respond(req, 200, turn.response[1])
  ELSE ChatHandlerError(req, turn.error)

\* await agent.fetch(".../agent/message") settles
AgentReturns(q) ==
  /\ requests[q].pc = "agent"
  /\ turns[requests[q].turn].pc = "done"
  /\ requests' = [requests EXCEPT ![q] =
                    AfterAgent(requests[q], turns[requests[q].turn])]
  /\ UNCHANGED <<now, budget, agentVars, rlVars, schemaVars, storeVars,
                 pipeVars, factVars>>

\* the chat requests that have been answered
Answered == {q \in RequestIds : requests[q].kind = "chat" /\ requests[q].pc = "done"}

\* GET /api/history arrives: 400 without the conversationId parameter, else
\* fetchSummary is issued
HistoryStart(conversationId) ==
  /\ budget.reads > 0
  /\ budget' = [budget EXCEPT !.reads = @ - 1]
  /\ LET req == [NewRequest("history", "", [conversationId |-> conversationId],
                            None)
                   EXCEPT !.seen = Answered]
     IN requests' = Append(requests,
          IF conversationId = None
          THEN Respond(req, 400,
                 [error |-> "conversationId query parameter is required"])
          ELSE [req EXCEPT !.pc = "fetchSummary", !.conv = conversationId])
  /\ UNCHANGED <<now, agentVars, rlVars, schemaVars, storeVars, pipeVars,
                 factVars>>

\* await fetchSummary(...) of handleHistoryRequest completes
HistorySummaryDone(q) ==
  /\ requests[q].pc = "fetchSummary"
  /\ \E record \in FetchSummary(summaries, requests[q].conv[1]) :
       requests' = [requests EXCEPT ![q].summary = record,
                                    ![q].pc = "fetchMessages"]
  /\ UNCHANGED <<now, budget, agentVars, rlVars, schemaVars, storeVars,
                 pipeVars, factVars>>

\* the body handleHistoryRequest returns
HistoryResponse(req, msgs) ==
  [conversationId |-> req.conv[1],
   summary        |-> IF req.summary = None THEN None
                      ELSE Some(req.summary[1].summary),
   lastUpdated    |-> IF req.summary = None THEN None
                      ELSE Some(ToISOString(req.summary[1].updatedAt)),
   messages       |-> msgs]

\* await fetchMessages(..., 50) of handleHistoryRequest completes
HistoryMessagesDone(q) ==
  /\ requests[q].pc = "fetchMessages"
  /\ \E msgs \in FetchMessages(messages, requests[q].conv[1], HistoryPageSize) :
       requests' = [requests EXCEPT ![q] =
                      Respond(requests[q], 200, HistoryResponse(requests[q], msgs))]
  /\ UNCHANGED <<now, budget, agentVars, rlVars, schemaVars, storeVars,
                 pipeVars, factVars>>

----------------------------------------------------------------------------
(* Routing: what the fetch handler does with a request that is not a POST  *)
(* /api/chat or a GET /api/history.  routeAgentRequest answers the paths   *)
(* of the Agents endpoints and returns null for every other path; what     *)
(* env.ASSETS.fetch and an agent answer is not decided by this program.    *)

Methods == {"GET", "POST", "OPTIONS"}

Paths == {"/", "/health", "/api/chat", "/api/history", "/api/unknown",
          "/apiary", "/agents/chat/c1", "/index.html"}

\* String.prototype.startsWith
StartsWith(s, prefix) ==
  Len(s) >= Len(prefix) /\ SubSeq(s, 1, Len(prefix)) = prefix

\* the paths routeAgentRequest answers
IsAgentPath(path) == StartsWith(path, "/agents/")

\* the chain of conditions of fetch: which branch takes the request
Dispatch(method, path) ==
  IF method = "OPTIONS" THEN "options"
  ELSE IF path = "/health" THEN "health"
  ELSE IF path = "/api/chat" /\ method = "POST" THEN "chat"
  ELSE IF path = "/api/history" /\ method = "GET" THEN "history"
  ELSE IF IsAgentPath(path) THEN "agent"
  ELSE IF path = "/" \/ ~StartsWith(path, "/api") THEN "assets"
  ELSE "notFound"

NotFoundBody ==
  [error   |-> "Not Found",
   message |-> "Route not handled. Use /api/chat, /api/history, or the Agents endpoints."]

\* what the static assets can answer
AssetStatuses == {200, 404}

\* what an agent can answer
AgentStatuses == {200, 400}

\* a request arrives that handleChatRequest and handleHistoryRequest do not
\* take: fetch up to its response, or up to the await of routeAgentRequest
\* when the path is one of the Agents endpoints, or up to env.ASSETS.fetch
RouteStart(method, path) ==
  /\ budget.routes > 0
  /\ Dispatch(method, path) \notin {"chat", "history"}
  /\ budget' = [budget EXCEPT !.routes = @ - 1]
  /\ LET req == NewRequest("other", "none",
                           [method |-> method, path |-> path], None)
         to  == Dispatch(method, path)
     IN requests' = Append(requests,
          CASE to = "options"  -> [req EXCEPT !.pc = "done", !.status = 204]
            [] to = "health"   -> Respond(req, 200,
                                    [status    |-> "ok",
                                     timestamp |-> ToISOString(now)])
            [] to = "agent"    -> [req EXCEPT !.pc = "agentRoute"]
            [] to = "assets"   -> [req EXCEPT !.pc = "assets"]
            [] to = "notFound" -> Respond(req, 404, NotFoundBody))
  /\ UNCHANGED <<now, agentVars, rlVars, schemaVars, storeVars, pipeVars,
                 factVars>>

\* env.ASSETS.fetch(request) returns: its response is the worker's response
AssetsReturns(q) ==
  /\ requests[q].pc = "assets"
  /\ \E status \in AssetStatuses :
       requests' = [requests EXCEPT ![q] =
                      Respond(@, status, [asset |-> @.body.path])]
  /\ UNCHANGED <<now, budget, agentVars, rlVars, schemaVars, storeVars,
                 pipeVars, factVars>>

\* routeAgentRequest returns the agent's response
AgentRouteReturns(q) ==
  /\ requests[q].pc = "agentRoute"
  /\ \E status \in AgentStatuses :
       requests' = [requests EXCEPT ![q] =
                      Respond(@, status, [agent |-> @.body.path])]
  /\ UNCHANGED <<now, budget, agentVars, rlVars, schemaVars, storeVars,
                 pipeVars, factVars>>

----------------------------------------------------------------------------
(* Store scenario: rows written one after another, as the turns of a       *)
(* conversation write them, and fetchMessages with any limit.              *)

ConvRows(tbl, c) == SelectSeq(tbl, LAMBDA m : m.conversationId = c)

\* persistMessage with createdAt = Date.now(): user and assistant rows of a
\* conversation alternate
StoreAppend(c) ==
  /\ budget.rows > 0
  /\ budget' = [budget EXCEPT !.rows = @ - 1]
  /\ messages' = PersistMessage(messages, c,
                   IF Len(ConvRows(messages, c)) % 2 = 0
                   THEN "user" ELSE "assistant",
                   <<"h">>, now)
  /\ UNCHANGED <<now, conversations, summaries, agentState, turns, workflows,
                 lastUpdate, storeVars, rlVars, schemaVars, otherVars>>

\* fetchMessages(db, c, limit)
StoreFetch(c, limit) ==
  /\ \E result \in FetchMessages(messages, c, limit) :
       fetched' = Some([conv |-> c, limit |-> limit, result |-> result,
                        rows |-> ConvRows(messages, c)])
  /\ UNCHANGED <<now, budget, agentVars, ensured, upserted, rlVars,
                 schemaVars, otherVars>>

\* ensureConversation(db, c, createdAt) with the Date.now() a handler took
\* when it started
StoreEnsure(c, createdAt) ==
  /\ budget.rows > 0
  /\ budget' = [budget EXCEPT !.rows = @ - 1]
  /\ conversations' = EnsureConversation(conversations, c, createdAt)
  /\ ensured' = Append(ensured, [conv |-> c, createdAt |-> createdAt])
  /\ UNCHANGED <<now, messages, summaries, agentState, turns, workflows,
                 lastUpdate, fetched, upserted, rlVars, schemaVars, otherVars>>

\* persistSummary(db, c, summary, updatedAt) with the Date.now() a run took
\* before its persist step
StoreUpsert(c, summary, updatedAt) ==
  /\ budget.rows > 0
  /\ budget' = [budget EXCEPT !.rows = @ - 1]
  /\ summaries' = PersistSummary(summaries, c, summary, updatedAt)
  /\ upserted' = Append(upserted, [conv |-> c, summary |-> summary,
                                   updatedAt |-> updatedAt])
  /\ UNCHANGED <<now, conversations, messages, agentState, turns, workflows,
                 lastUpdate, fetched, ensured, rlVars, schemaVars, otherVars>>

----------------------------------------------------------------------------
(* Initial states: the state after construction, for each scenario.        *)

InitAgent ==
  /\ conversations = [c \in Convs |-> None]
  /\ messages = <<>>
  /\ summaries = {}
  /\ agentState = [c \in Convs |-> InitialState]
  /\ turns = <<>>
  /\ workflows = {}
  /\ lastUpdate = None

InitRateLimit ==
  /\ kv = [k \in AllKeys |-> None]
  /\ rlParams = [limit |-> RATE_LIMIT_REQUESTS, windowMs |-> RATE_LIMIT_WINDOW_MS]
  /\ rlCalls = <<>>

InitSchema ==
  /\ schemaReady = None
  /\ inits = <<>>
  /\ callers = <<>>
  /\ tables = {}

InitStore ==
  /\ fetched = None
  /\ ensured = <<>>
  /\ upserted = <<>>

InitOther ==
  /\ runs = <<>>
  /\ requests = <<>>
  /\ extraction = None

NoBudget ==
  [turns |-> 0, updates |-> 0, calls |-> 0, ticks |-> 0, callers |-> 0,
   rows |-> 0, runs |-> 0, lines |-> 0, chats |-> 0, reads |-> 0,
   routes |-> 0, retries |-> 0, crashes |-> 0]

\* Concurrent scenario: requests for any conversation arrive at any time.
Init ==
  /\ now = 0
  /\ budget = [NoBudget EXCEPT !.turns = MaxConcurrent]
  /\ InitAgent /\ InitRateLimit /\ InitSchema /\ InitStore /\ InitOther

Next ==
  \/ \E c \in Convs, m \in UserTexts, md \in Metadatas :
       HandleMessageStart(c, m, md)
  \/ \E t \in 1..Len(turns) : EnsureConversationDone(t)
  \/ \E t \in 1..Len(turns) : FetchSummaryDone(t)
  \/ \E t \in 1..Len(turns) : FetchMessagesDone(t)
  \/ \E t \in 1..Len(turns) : InferenceDone(t)
  \/ \E t \in 1..Len(turns) : PersistUserDone(t)
  \/ \E t \in 1..Len(turns) : PersistAssistantDone(t)
  \/ \E t \in 1..Len(turns) : EnqueueDone(t)
  \/ Tick

Spec == Init /\ [][Next]_vars

\* Single-turn scenario: the same handler, MaxTurns requests in all.
InitTurn ==
  /\ now = 0
  /\ budget = [NoBudget EXCEPT !.turns = MaxTurns]
  /\ InitAgent /\ InitRateLimit /\ InitSchema /\ InitStore /\ InitOther

SpecTurn == InitTurn /\ [][Next]_vars

\* State scenario: callers of the /agent/state entry point.
InitState ==
  /\ now = 0
  /\ budget = [NoBudget EXCEPT !.updates = MaxUpdates]
  /\ InitAgent /\ InitRateLimit /\ InitSchema /\ InitStore /\ InitOther

NextState ==
  \/ \E c \in Convs : \E u \in Updates(c) : OnRequestAgentState(c, u)
  \/ Tick

SpecState == InitState /\ [][NextState]_vars

\* Limiter scenario: callers that all pass the same limit and window.
Limits == {1, 2}
WindowSizes == {1000, RATE_LIMIT_WINDOW_MS}

InitLimit ==
  /\ now = 0
  /\ budget = [NoBudget EXCEPT !.calls = MaxCalls, !.ticks = MaxTicks]
  /\ kv = [k \in AllKeys |-> None]
  /\ rlParams \in [limit : Limits, windowMs : WindowSizes]
  /\ rlCalls = <<>>
  /\ InitAgent /\ InitSchema /\ InitStore /\ InitOther

NextLimit ==
  \/ \E k \in Keys : EnforceRateLimitStart(k)
  \/ \E i \in RlIds : EnforceRateLimitGetDone(i)
  \/ \E i \in RlIds : EnforceRateLimitPutDone(i)
  \/ \E d \in TickSteps : TickLimit(d)

SpecLimit == InitLimit /\ [][NextLimit]_vars

\* Boundary scenario: the same limiter, with calls at the instant a window
\* ends.
NextBoundary ==
  \/ \E k \in Keys : EnforceRateLimitStart(k)
  \/ \E i \in RlIds : EnforceRateLimitGetDone(i)
  \/ \E i \in RlIds : EnforceRateLimitPutDone(i)
  \/ \E d \in BoundarySteps : TickLimit(d)

SpecBoundary == InitLimit /\ [][NextBoundary]_vars

\* Bootstrap scenario: concurrent requests reach ensureSchema.
InitBootstrap ==
  /\ now = 0
  /\ budget = [NoBudget EXCEPT !.callers = MaxCallers]
  /\ InitAgent /\ InitRateLimit /\ InitSchema /\ InitStore /\ InitOther

NextBootstrap ==
  \/ EnsureSchemaCall
  \/ \E p \in InitIds : StatementSettles(p)
  \/ \E k \in CallerIds : EnsureSchemaReturns(k)

SpecBootstrap == InitBootstrap /\ [][NextBootstrap]_vars

\* Store scenario.
InitRows ==
  /\ now = 0
  /\ budget = [NoBudget EXCEPT !.rows = MaxRows]
  /\ InitAgent /\ InitRateLimit /\ InitSchema /\ InitStore /\ InitOther

NextStore ==
  \/ \E c \in Convs : StoreAppend(c)
  \/ \E c \in Convs, limit \in 1..MaxFetchLimit : StoreFetch(c, limit)
  \/ Tick

SpecStore == InitRows /\ [][NextStore]_vars

\* Table scenario: the statements on conversations and
\* conversation_summaries, issued in any order with current or stale
\* timestamps.
InitTables ==
  /\ now = 0
  /\ budget = [NoBudget EXCEPT !.rows = MaxStoreCalls]
  /\ InitAgent /\ InitRateLimit /\ InitSchema /\ InitStore /\ InitOther

NextTables ==
  \/ \E c \in Convs, createdAt \in 0..now : StoreEnsure(c, createdAt)
  \/ \E c \in Convs, summary \in SummaryTexts, updatedAt \in 0..now :
       StoreUpsert(c, summary, updatedAt)
  \/ Tick

SpecTables == InitTables /\ [][NextTables]_vars

\* Gateway scenario: chat and history requests.  The window of the key of
\* conversation c1 is used up: RATE_LIMIT_REQUESTS requests for c1 were
\* counted at time 0 (none of which reached the agent).
UsedUpWindow(t) ==
  KVPut(JSONStringify([count |-> RATE_LIMIT_REQUESTS,
                       reset |-> t + RATE_LIMIT_WINDOW_MS]),
        Max(CeilDiv(RATE_LIMIT_WINDOW_MS, MsPerSecond), MinTtlSeconds), t)

InitGateway ==
  /\ now = 0
  /\ budget = [NoBudget EXCEPT !.chats = MaxChats, !.reads = MaxReads]
  /\ kv = [k \in AllKeys |-> IF k = RateKey("c1") THEN UsedUpWindow(0) ELSE None]
  /\ rlParams = [limit |-> RATE_LIMIT_REQUESTS, windowMs |-> RATE_LIMIT_WINDOW_MS]
  /\ rlCalls = <<>>
  /\ InitAgent /\ InitSchema /\ InitStore /\ InitOther

NextGateway ==
  \/ \E ct \in ContentTypes, body \in ChatBodies,
        ip \in {None} \cup {Some(a) : a \in Ips} : ChatStart(ct, body, ip)
  \/ \E i \in RlIds : EnforceRateLimitGetDone(i)
  \/ \E i \in RlIds : EnforceRateLimitPutDone(i)
  \/ \E q \in RequestIds : RateLimitReturns(q)
  \/ \E q \in RequestIds : TranscribeDone(q)
  \/ \E q \in RequestIds, c \in Convs : AgentReceives(q, c)
  \/ \E t \in 1..Len(turns) : EnsureConversationDone(t)
  \/ \E t \in 1..Len(turns) : FetchSummaryDone(t)
  \/ \E t \in 1..Len(turns) : FetchMessagesDone(t)
  \/ \E t \in 1..Len(turns) : InferenceDone(t)
  \/ \E t \in 1..Len(turns) : PersistUserDone(t)
  \/ \E t \in 1..Len(turns) : PersistAssistantDone(t)
  \/ \E t \in 1..Len(turns) : EnqueueDone(t)
  \/ \E q \in RequestIds : AgentReturns(q)
  \/ \E c \in {None} \cup {Some(c) : c \in Convs} : HistoryStart(c)
  \/ \E q \in RequestIds : HistorySummaryDone(q)
  \/ \E q \in RequestIds : HistoryMessagesDone(q)
  \/ Tick

SpecGateway == InitGateway /\ [][NextGateway]_vars

\* Chat scenario: the chat requests alone, at one instant.
InitChat ==
  /\ now = 0
  /\ budget = [NoBudget EXCEPT !.chats = MaxChats]
  /\ kv = [k \in AllKeys |-> IF k = RateKey("c1") THEN UsedUpWindow(0) ELSE None]
  /\ rlParams = [limit |-> RATE_LIMIT_REQUESTS, windowMs |-> RATE_LIMIT_WINDOW_MS]
  /\ rlCalls = <<>>
  /\ InitAgent /\ InitSchema /\ InitStore /\ InitOther

NextChat ==
  \/ \E ct \in ContentTypes, body \in ChatBodies,
        ip \in {None} \cup {Some(a) : a \in Ips} : ChatStart(ct, body, ip)
  \/ \E i \in RlIds : EnforceRateLimitGetDone(i)
  \/ \E i \in RlIds : EnforceRateLimitPutDone(i)
  \/ \E q \in RequestIds : RateLimitReturns(q)
  \/ \E q \in RequestIds : TranscribeDone(q)
  \/ \E q \in RequestIds, c \in Convs : AgentReceives(q, c)
  \/ \E t \in 1..Len(turns) : EnsureConversationDone(t)
  \/ \E t \in 1..Len(turns) : FetchSummaryDone(t)
  \/ \E t \in 1..Len(turns) : FetchMessagesDone(t)
  \/ \E t \in 1..Len(turns) : InferenceDone(t)
  \/ \E t \in 1..Len(turns) : PersistUserDone(t)
  \/ \E t \in 1..Len(turns) : PersistAssistantDone(t)
  \/ \E t \in 1..Len(turns) : EnqueueDone(t)
  \/ \E q \in RequestIds : AgentReturns(q)

SpecChat == InitChat /\ [][NextChat]_vars

\* Extraction scenario: extractPinnedFacts on summary texts of up to
\* MaxLines lines.
InitFacts ==
  /\ now = 0
  /\ budget = [NoBudget EXCEPT !.lines = MaxLines]
  /\ InitAgent /\ InitRateLimit /\ InitSchema /\ InitStore /\ InitOther

NextFacts ==
  \/ \E line \in SummaryLines : WriteLine(line)
  \/ Extract

SpecFacts == InitFacts /\ [][NextFacts]_vars

\* Pipeline scenario: rows are written as turns write them and instances
\* of the workflow run for any conversation.
InitPipeline ==
  /\ now = 0
  /\ budget = [NoBudget EXCEPT !.rows = MaxPipeRows, !.runs = MaxRuns]
  /\ InitAgent /\ InitRateLimit /\ InitSchema /\ InitStore /\ InitOther

NextPipeline ==
  \/ \E c \in Convs : StoreAppend(c)
  \/ \E c \in Convs : RunStart(c)
  \/ \E r \in RunIds : FetchStepDone(r)
  \/ \E r \in RunIds : SummarizeStepDone(r)
  \/ \E r \in RunIds : PersistStepDone(r)
  \/ \E r \in RunIds : SyncStepDone(r)
  \/ Tick

SpecPipeline == InitPipeline /\ [][NextPipeline]_vars

\* Overlap scenario: the same pipeline, with runs that overlap.
InitOverlap ==
  /\ now = 0
  /\ budget = [NoBudget EXCEPT !.rows = MaxPipeRows, !.runs = MaxOverlap]
  /\ InitAgent /\ InitRateLimit /\ InitSchema /\ InitStore /\ InitOther

SpecOverlap == InitOverlap /\ [][NextPipeline]_vars

\* Retry scenario: the pipeline, the summarize step having retries left.
InitRetry ==
  /\ now = 0
  /\ budget = [NoBudget EXCEPT !.rows = MaxPipeRows, !.runs = MaxRuns,
                               !.retries = MaxRetries]
  /\ InitAgent /\ InitRateLimit /\ InitSchema /\ InitStore /\ InitOther

SpecRetry == InitRetry /\ [][NextPipeline]_vars

\* Resume scenario: the pipeline at one instant, with runs that the
\* platform interrupts and resumes.
InitResume ==
  /\ now = 0
  /\ budget = [NoBudget EXCEPT !.rows = MaxPipeRows, !.runs = MaxRuns,
                               !.crashes = MaxCrashes]
  /\ InitAgent /\ InitRateLimit /\ InitSchema /\ InitStore /\ InitOther

NextResume ==
  \/ \E c \in Convs : StoreAppend(c)
  \/ \E c \in Convs : RunStart(c)
  \/ \E r \in RunIds : FetchStepDone(r)
  \/ \E r \in RunIds : SummarizeStepDone(r)
  \/ \E r \in RunIds : PersistStepDone(r)
  \/ \E r \in RunIds : SyncStepDone(r)
  \/ \E r \in RunIds : RunInterrupted(r)

SpecResume == InitResume /\ [][NextResume]_vars

\* The resume scenario with a clock that advances between the steps.
NextResumeClock ==
  \/ \E c \in Convs : StoreAppend(c)
  \/ \E c \in Convs : RunStart(c)
  \/ \E r \in RunIds : FetchStepDone(r)
  \/ \E r \in RunIds : SummarizeStepDone(r)
  \/ \E r \in RunIds : PersistStepDone(r)
  \/ \E r \in RunIds : SyncStepDone(r)
  \/ \E r \in RunIds : RunInterrupted(r)
  \/ Tick

SpecResumeClock == InitResume /\ [][NextResumeClock]_vars

\* Trigger scenario: turns of one conversation, at one instant, and the runs
\* of the instances the turns create.  The operations a turn awaits settle
\* sooner or later; nothing makes the platform start or continue a run.
InitTrigger ==
  /\ now \in {0, MaxNow}
  /\ budget = [NoBudget EXCEPT !.turns = MaxTurns, !.runs = MaxRuns]
  /\ InitAgent /\ InitRateLimit /\ InitSchema /\ InitStore /\ InitOther

TurnSteps ==
  \E t \in 1..Len(turns) :
    \/ EnsureConversationDone(t)
    \/ FetchSummaryDone(t)
    \/ FetchMessagesDone(t)
    \/ InferenceDone(t)
    \/ PersistUserDone(t)
    \/ PersistAssistantDone(t)
    \/ EnqueueDone(t)

NextTrigger ==
  \/ \E m \in UserTexts : HandleMessageStart("c1", m, NoMetadata)
  \/ TurnSteps
  \/ \E c \in Convs : InstanceStarts(c)
  \/ \E r \in RunIds : FetchStepDone(r)
  \/ \E r \in RunIds : SummarizeStepDone(r)
  \/ \E r \in RunIds : PersistStepDone(r)
  \/ \E r \in RunIds : SyncStepDone(r)

SpecTrigger == InitTrigger /\ [][NextTrigger]_vars /\ WF_vars(TurnSteps)

\* Writers scenario: everything that touches the summary of one
\* conversation, at one instant: MaxWriters operations, each a turn, a
\* /agent/state update, a history read or a pipeline run, at most MaxTurns
\* of them turns.
WriterUpdates ==
  { [conversationId |-> "c1", summary |-> Some(<<"t">>),
     pinnedFacts |-> Some(<<"f">>), lastUpdated |-> None],
    [conversationId |-> "c1", summary |-> None,
     pinnedFacts |-> None, lastUpdated |-> Some(ToISOString(0))] }

InitWriters ==
  /\ now = 0
  /\ \E t \in 0..MaxTurns, u, h \in 0..MaxWriters :
       /\ t + u + h <= MaxWriters
       /\ budget = [NoBudget EXCEPT !.turns = t, !.updates = u, !.reads = h,
                                    !.runs = MaxWriters - t - u - h]
  /\ InitAgent /\ InitRateLimit /\ InitSchema /\ InitStore /\ InitOther

NextWriters ==
  \/ \E m \in UserTexts : HandleMessageStart("c1", m, NoMetadata)
  \/ TurnSteps
  \/ \E u \in WriterUpdates : OnRequestAgentState("c1", u)
  \/ HistoryStart(Some("c1"))
  \/ \E q \in RequestIds : HistorySummaryDone(q)
  \/ \E q \in RequestIds : HistoryMessagesDone(q)
  \/ RunStart("c1")
  \/ \E r \in RunIds : FetchStepDone(r)
  \/ \E r \in RunIds : SummarizeStepDone(r)
  \/ \E r \in RunIds : PersistStepDone(r)
  \/ \E r \in RunIds : SyncStepDone(r)

SpecWriters == InitWriters /\ [][NextWriters]_vars

\* Long-conversation scenario: conversation c1 holds the rows of earlier
\* turns, written one turn after the other at distinct instants, and the
\* requests of the scenario arrive one after the other.
PriorPairs == {0, 7, 8}

\* the rows that p earlier turns left in conversation_messages
PriorTranscript(p) ==
  [k \in 1..(2 * p) |->
     [id             |-> k,
      conversationId |-> "c1",
      role           |-> IF k % 2 = 1 THEN "user" ELSE "assistant",
      content        |-> IF k % 2 = 1 THEN <<"h">> ELSE <<"a">>,
      createdAt      |-> k]]

InitLong ==
  /\ budget = [NoBudget EXCEPT !.turns = MaxTurns]
  /\ \E p \in PriorPairs :
       /\ now \in {2 * p + 1, 2 * p + 2}
       /\ messages = PriorTranscript(p)
       /\ conversations = [c \in Convs |->
                             IF c = "c1" /\ p > 0 THEN Some(1) ELSE None]
       /\ agentState = [c \in Convs |->
                          IF c = "c1" /\ p > 0
                          THEN TurnState(InitialState, "c1", 2 * p)
                          ELSE InitialState]
  /\ summaries = {}
  /\ turns = <<>>
  /\ workflows = {}
  /\ lastUpdate = None
  /\ InitRateLimit /\ InitSchema /\ InitStore /\ InitOther

NextLong ==
  \/ \E m \in UserTexts, md \in Metadatas :
       /\ \A t \in 1..Len(turns) : turns[t].pc = "done"
       /\ HandleMessageStart("c1", m, md)
  \/ TurnSteps

SpecLong == InitLong /\ [][NextLong]_vars

\* Routing scenario: requests other than chat and history requests.
InitRoutes ==
  /\ now = 0
  /\ budget = [NoBudget EXCEPT !.routes = MaxRoutes]
  /\ InitAgent /\ InitRateLimit /\ InitSchema /\ InitStore /\ InitOther

NextRoutes ==
  \/ \E method \in Methods, path \in Paths : RouteStart(method, path)
  \/ \E q \in RequestIds : AssetsReturns(q)
  \/ \E q \in RequestIds : AgentRouteReturns(q)
  \/ Tick

SpecRoutes == InitRoutes /\ [][NextRoutes]_vars

----------------------------------------------------------------------------
(* Properties of handleMessage.                                            *)

TurnIds == 1..Len(turns)

InProgress(c) == {t \in TurnIds : turns[t].conv = c /\ turns[t].pc # "done"}

\* C1: for every conversation at most one handleMessage invocation is in
\* progress at any time (a second one starts none of its steps before the
\* first has returned).
C1_OneTurnInFlight ==
  \A c \in Convs : Cardinality(InProgress(c)) <= 1

\* C2: for every conversation, the rows of conversation_messages taken in
\* insertion order have non-decreasing createdAt values.
C2_CreatedAtNonDecreasing ==
  \A i, j \in 1..Len(messages) :
    (i < j /\ messages[i].conversationId = messages[j].conversationId)
      => messages[i].createdAt <= messages[j].createdAt

\* the backend gave an empty or missing result, or threw
InferenceFailed(turn) ==
  /\ turn.aiResult # None
  /\ \/ turn.aiResult[1].kind \in {"missing", "throws"}
     \/ turn.aiResult[1].text = <<>>

\* C8: a turn whose inference result is empty, missing or a throw fails with
\* an error for the caller after a single inference call; it has persisted no
\* message, written no actor state and enqueued no pipeline run.
C8_InferenceFailureIsFatal ==
  /\ \A t \in TurnIds :
       InferenceFailed(turns[t]) =>
         /\ turns[t].pc = "done"
         /\ turns[t].outcome = "threw"
         /\ turns[t].error # ""
         /\ turns[t].response = None
         /\ turns[t].aiCalls = 1
         /\ turns[t].wrote = {}
         /\ turns[t].stateWrites = 0
         /\ turns[t].enqueue = "none"
  /\ \A i \in 1..Len(messages) :
       \E t \in TurnIds : i \in turns[t].wrote /\ ~InferenceFailed(turns[t])
  /\ \A id \in workflows :
       \E t \in TurnIds :
         /\ id = WorkflowId(turns[t].conv, turns[t].createdAt)
         /\ ~InferenceFailed(turns[t])

C8_Witness ==
  \E t \in TurnIds :
    /\ InferenceFailed(turns[t])
    /\ turns[t].aiResult[1].kind = "response"
    /\ turns[t].pc = "done"
    /\ conversations[turns[t].conv] # None

\* the rows the turn has inserted: its user message, then its reply
TurnRows(turn) ==
  \E i, j \in turn.wrote :
    /\ i < j
    /\ messages[i].role = "user" /\ messages[i].content = turn.message
    /\ messages[i].conversationId = turn.conv
    /\ messages[j].role = "assistant" /\ messages[j].content = turn.reply
    /\ messages[j].conversationId = turn.conv

\* C9: when CHAT_WORKFLOW.create fails, the turn still succeeds: the step
\* that meets the failure returns the reply to the caller and leaves both
\* messages of the turn and the actor state written by the turn in place.
C9_EnqueueFailureKeepsTurn ==
  [][\A t \in TurnIds :
       (turns[t].pc = "enqueue" /\ turns'[t].enqueue = "failed") =>
         /\ turns'[t].pc = "done"
         /\ turns'[t].outcome = "ok"
         /\ turns'[t].response # None
         /\ turns'[t].response[1].reply = turns[t].reply
         /\ turns'[t].response[1].conversationId = turns[t].conv
         /\ turns[t].stateWrites = 1
         /\ agentState' = agentState
         /\ messages' = messages
         /\ TurnRows(turns[t])]_vars

C9_Witness ==
  \E t \in TurnIds :
    /\ turns[t].enqueue = "failed"
    /\ turns[t].outcome = "ok"
    /\ turns[t].response # None
    /\ WorkflowId(turns[t].conv, turns[t].createdAt) \notin workflows

\* the rows of conversation_messages the turn has inserted, in rowid order
RowsOf(turn) == {i \in 1..Len(messages) : i \in turn.wrote}

\* C25: a successful turn has persisted its user message before its reply,
\* each with its own timestamp: while the reply is being written the user
\* row of the turn is in the table, stamped with the start of the turn, and
\* once the turn has returned the assistant row follows it with a createdAt
\* greater than or equal to the user row's.
C25_UserBeforeAssistant ==
  \A t \in TurnIds :
    /\ turns[t].pc = "persistAssistant" =>
         \E i \in 1..Len(messages) :
           /\ RowsOf(turns[t]) = {i}
           /\ messages[i].role = "user"
           /\ messages[i].createdAt = turns[t].createdAt
    /\ turns[t].outcome = "ok" =>
         \E i, j \in 1..Len(messages) :
           /\ RowsOf(turns[t]) = {i, j}
           /\ i < j
           /\ messages[i].role = "user"
           /\ messages[i].createdAt = turns[t].createdAt
           /\ messages[j].role = "assistant"
           /\ messages[j].createdAt >= messages[i].createdAt

\* a turn returned whose reply was stamped later than its user message
C25_Witness ==
  \E t \in TurnIds :
    /\ turns[t].outcome = "ok"
    /\ \E i, j \in RowsOf(turns[t]) :
         /\ messages[i].role = "user" /\ messages[j].role = "assistant"
         /\ messages[j].createdAt > messages[i].createdAt
         /\ messages[i].createdAt > 0

\* C26: the pipeline is not awaited by the request path: every turn that
\* has started returns, whether or not the run it enqueued ever starts or
\* finishes, and the step in which the turn returns after the enqueue
\* attempt hands back the reply and needs no step of any run.
C26_TurnReturnsWithoutPipeline ==
  /\ \A t \in 1..MaxTurns :
       (t \in TurnIds) ~> (t \in TurnIds /\ turns[t].pc = "done")
  /\ [][\A t \in TurnIds :
          (turns[t].pc = "enqueue" /\ turns'[t] # turns[t]) =>
            /\ turns'[t].pc = "done"
            /\ turns'[t].outcome = "ok"
            /\ turns'[t].response # None
            /\ turns'[t].response[1].reply = turns[t].reply
            /\ runs' = runs]_vars

\* a turn has returned its reply and the run it enqueued has not started
C26_Witness ==
  \E t \in TurnIds :
    /\ turns[t].outcome = "ok"
    /\ turns[t].enqueue = "created"
    /\ turns[t].response # None
    /\ WorkflowId(turns[t].conv, turns[t].createdAt) \in workflows
    /\ runs = <<>>

\* C29: the pipeline run of a turn is identified by the pair
\* (conversationId, timestamp at the start of the turn), and two different
\* turns of one conversation never have the same workflow instance id.
C29_WorkflowIdsDistinct ==
  \A t1, t2 \in TurnIds :
    (t1 # t2 /\ turns[t1].conv = turns[t2].conv) =>
      WorkflowId(turns[t1].conv, turns[t1].createdAt)
        # WorkflowId(turns[t2].conv, turns[t2].createdAt)

\* C30: in the response of every successful turn metadata.messageCount is
\* the number of history rows read plus two and metadata.receivedAt is the
\* time the turn was received, whatever keys the caller put into the
\* request's metadata, and summary is the stored summary as read at the
\* start of the turn (null if there was none).
C30_MetadataComputedByActor ==
  \A t \in TurnIds :
    turns[t].outcome = "ok" =>
      /\ turns[t].response[1].metadata.messageCount = Len(turns[t].history) + 2
      /\ turns[t].response[1].metadata.receivedAt = ToISOString(turns[t].createdAt)
      /\ turns[t].response[1].summary =
           IF turns[t].summaryRecord = None THEN None
           ELSE Some(turns[t].summaryRecord[1].summary)

\* C32: the state write at the end of a turn changes only conversationId
\* and lastUpdated: the actor's summary and pinnedFacts after the write are
\* the ones it held immediately before the write, so an update applied
\* while the turn was suspended is not lost.
C32_TurnWriteKeepsSummary ==
  [][\A t \in TurnIds :
       (turns[t].pc = "persistAssistant" /\ turns'[t].pc = "enqueue") =>
         /\ agentState'[turns[t].conv].summary
              = agentState[turns[t].conv].summary
         /\ agentState'[turns[t].conv].pinnedFacts
              = agentState[turns[t].conv].pinnedFacts]_vars

----------------------------------------------------------------------------
(* Properties of POST /agent/state.                                        *)

\* the fields of the state that the latest update left out keep their value
Kept(field) ==
  lastUpdate # None =>
    LET r == lastUpdate[1]
    IN r.update[field] = None => agentState[r.conv][field] = r.before[field]

\* the fields the latest update names take the value of the update
Taken ==
  lastUpdate # None =>
    LET r == lastUpdate[1]
        s == agentState[r.conv]
    IN /\ s.conversationId = Some(r.update.conversationId)
       /\ r.update.summary # None => s.summary = r.update.summary
       /\ r.update.pinnedFacts # None => s.pinnedFacts = r.update.pinnedFacts[1]
       /\ r.update.lastUpdated # None => s.lastUpdated = r.update.lastUpdated

\* C10 as stated: each of summary, pinnedFacts and lastUpdated that the
\* update leaves out keeps the value it had before the update.
C10_AbsentFieldsKept ==
  Kept("summary") /\ Kept("pinnedFacts") /\ Kept("lastUpdated")

\* C10 amended: summary and pinnedFacts keep their value when the update
\* leaves them out, fields named by the update take its value, and a
\* lastUpdated left out is set to the time of the request.
C10_PartialUpdate ==
  /\ Kept("summary") /\ Kept("pinnedFacts") /\ Taken
  /\ lastUpdate # None =>
       LET r == lastUpdate[1]
       IN r.update.lastUpdated = None =>
            agentState[r.conv].lastUpdated = Some(ToISOString(r.at))

C10_Witness ==
  /\ lastUpdate # None
  /\ LET r == lastUpdate[1]
     IN /\ r.update.summary = None /\ r.before.summary # None
        /\ r.update.pinnedFacts = None /\ r.before.pinnedFacts # <<>>
        /\ r.update.lastUpdated = None /\ r.before.lastUpdated # None
        /\ r.before.lastUpdated # Some(ToISOString(r.at))
        /\ agentState[r.conv].summary = r.before.summary

\* C11: in every reachable state the pinnedFacts of every actor has at most
\* 5 entries, whoever called the /agent/state entry point.
C11_PinnedFactsBounded ==
  \A c \in Convs : Len(agentState[c].pinnedFacts) <= MaxPinnedFacts

----------------------------------------------------------------------------
(* Properties of enforceRateLimit.                                         *)

\* calls i..j on the key of call i are sequential calls (none overlaps
\* another call on the key) that lie inside the window call i opened
SequentialInWindow(i, j) ==
  /\ i <= j
  /\ rlCalls[j].key = rlCalls[i].key
  /\ rlCalls[i].opened
  /\ \A k \in i..j :
       rlCalls[k].key = rlCalls[i].key =>
         /\ rlCalls[k].pc = "done"
         /\ ~rlCalls[k].overlapped
         /\ rlCalls[k].doneAt < rlCalls[i].windowEnd

\* the position of call j among the calls on its key since call i
Rank(i, j) == Cardinality({k \in i..j : rlCalls[k].key = rlCalls[i].key})

\* C4: of sequential calls on one key inside one window, the first `limit`
\* return true and every later one returns false.
C4_SequentialCallsLimited ==
  \A i, j \in RlIds :
    SequentialInWindow(i, j) =>
      rlCalls[j].result = Some(Rank(i, j) <= rlParams.limit)

C4_Witness ==
  \E i, j \in RlIds :
    /\ SequentialInWindow(i, j)
    /\ rlParams.limit = 2
    /\ Rank(i, j) = 3
    /\ rlCalls[j].result = Some(FALSE)
    /\ \A k \in i..(j - 1) : rlCalls[k].result = Some(TRUE)

\* calls a and b on one key have both read the same record of an open window
\* with count = limit - 1: neither has seen the other's write
BothReadLastSlot(a, b) ==
  /\ a # b
  /\ rlCalls[a].key = rlCalls[b].key
  /\ rlCalls[a].pc # "get" /\ rlCalls[b].pc # "get"
  /\ rlCalls[a].record # None
  /\ rlCalls[a].record = rlCalls[b].record
  /\ rlCalls[a].record[1].count = rlParams.limit - 1
  /\ rlCalls[a].record[1].reset >= rlCalls[a].now
  /\ rlCalls[a].record[1].reset >= rlCalls[b].now

\* the end of the window a call counted itself into
WindowOf(call) == IF call.opened THEN call.windowEnd ELSE call.record[1].reset

Allowed(key, windowEnd) ==
  {i \in RlIds : /\ rlCalls[i].key = key
                 /\ rlCalls[i].result = Some(TRUE)
                 /\ WindowOf(rlCalls[i]) = windowEnd}

\* C5: two overlapping calls on one key that both read count = limit - 1
\* are both allowed: each writes count = limit and returns true.
C5_OverlappingCallsBothAllowed ==
  \A a, b \in RlIds :
    BothReadLastSlot(a, b) =>
      \A i \in {a, b} :
        /\ rlCalls[i].put # None
        /\ JSONParse(rlCalls[i].put[1].value).count = rlParams.limit
        /\ rlCalls[i].pc = "done" => rlCalls[i].result = Some(TRUE)

\* ... so that more than `limit` calls of one window are allowed
C5_Witness ==
  \E a, b \in RlIds :
    /\ BothReadLastSlot(a, b)
    /\ rlCalls[a].pc = "done" /\ rlCalls[b].pc = "done"
    /\ Cardinality(Allowed(rlCalls[a].key, rlCalls[a].record[1].reset))
         > rlParams.limit
    /\ KVGet(kv[rlCalls[a].key], now) # None
    /\ KVGet(kv[rlCalls[a].key], now)[1].count = rlParams.limit

\* the calls whose get has resolved
HaveRead == {i \in RlIds : rlCalls[i].pc # "get"}

\* C22: a call that finds no record for the key, or finds a record with
\* now >= record.windowEnd (the instant now = windowEnd included), writes
\* the new record {count: 1, windowEnd: now + windowMs} and returns true.
C22_WindowReopensAtItsEnd ==
  \A i \in HaveRead :
    (\/ rlCalls[i].record = None
     \/ rlCalls[i].now >= rlCalls[i].record[1].reset) =>
      /\ rlCalls[i].put # None
      /\ JSONParse(rlCalls[i].put[1].value) =
           [count |-> 1, reset |-> rlCalls[i].now + rlParams.windowMs]
      /\ rlCalls[i].pc = "done" => rlCalls[i].result = Some(TRUE)

\* the call has read the record of a window that is still open
InOpenWindow(call) ==
  /\ call.pc # "get"
  /\ call.record # None
  /\ call.now < call.record[1].reset

\* C23: inside an open window an allowed call writes count + 1 and keeps
\* the window end of the record it read, and a denied call (count >= limit)
\* returns false and writes nothing: the step in which a call reads the
\* record leaves the store as it is, and the step in which an allowed call
\* writes stores the count + 1 with the old window end.
C23_WindowEndKept ==
  [][\A i \in RlIds :
       (rlCalls'[i] # rlCalls[i] /\ InOpenWindow(rlCalls'[i])) =>
         LET call == rlCalls'[i]
             next == [count |-> call.record[1].count + 1,
                      reset |-> call.record[1].reset]
         IN IF call.record[1].count >= rlParams.limit
            THEN /\ call.pc = "done" /\ call.result = Some(FALSE)
                 /\ call.put = None
                 /\ kv' = kv
            ELSE /\ call.put # None
                 /\ JSONParse(call.put[1].value) = next
                 /\ IF call.pc = "put" THEN kv' = kv
                    ELSE /\ call.result = Some(TRUE)
                         /\ kv'[call.key] # None
                         /\ JSONParse(kv'[call.key][1].value) = next]_vars

\* with limit 2: a later call of the window was allowed and left the count
\* 2 under the window end it found, and a call after it was denied
C23_Witness ==
  \E i, j \in RlIds :
    /\ InOpenWindow(rlCalls[i]) /\ InOpenWindow(rlCalls[j])
    /\ rlCalls[i].pc = "done" /\ rlCalls[j].pc = "done"
    /\ rlCalls[i].result = Some(TRUE)
    /\ rlCalls[i].windowEnd # rlCalls[i].record[1].reset
    /\ rlCalls[j].result = Some(FALSE)
    /\ rlCalls[j].record[1] = [count |-> 2, reset |-> rlCalls[i].record[1].reset]
    /\ KVGet(kv[rlCalls[i].key], now) = rlCalls[j].record

\* the calls that issued a put
HavePut == {i \in RlIds : rlCalls[i].put # None}

\* what is left of the window of the record a call writes, at the call's now
Remaining(call) == JSONParse(call.put[1].value).reset - call.now

\* C24: every record enforceRateLimit writes gets an expiry derived from
\* record.windowEnd - now such that the record neither expires before its
\* window closes nor outlives its window (rounding up to the next whole
\* second apart).
C24_ExpiryMatchesWindow ==
  \A i \in HavePut :
    /\ rlCalls[i].put[1].ttl * MsPerSecond >= Remaining(rlCalls[i])
    /\ rlCalls[i].put[1].ttl * MsPerSecond < Remaining(rlCalls[i]) + MsPerSecond

----------------------------------------------------------------------------
(* Properties of fetchMessages.                                            *)

\* C3: fetchMessages returns exactly the min(limit, n) most recently created
\* messages of the conversation, oldest first in creation order, also when
\* several messages carry the same createdAt.
C3_MostRecentInCreationOrder ==
  fetched # None =>
    LET f == fetched[1]
        n == Len(f.rows)
        k == Min(f.limit, n)
    IN f.result = SubSeq(f.rows, n - k + 1, n)

----------------------------------------------------------------------------
(* Properties of the conversations and conversation_summaries tables.      *)

SummaryRows(c) == {row \in summaries : row.conversationId = c}

UpsertCalls(c) == SelectSeq(upserted, LAMBDA call : call.conv = c)

EnsureCalls(c) == SelectSeq(ensured, LAMBDA call : call.conv = c)

\* C19: after any sequence of persistSummary calls, conversation_summaries
\* holds at most one row per conversation, and that row carries the text and
\* the timestamp of the most recent call for the conversation.
C19_UpsertKeepsLatest ==
  \A c \in Convs :
    LET calls == UpsertCalls(c)
    IN /\ Cardinality(SummaryRows(c)) <= 1
       /\ calls = <<>> => SummaryRows(c) = {}
       /\ calls # <<>> =>
            SummaryRows(c) =
              {[conversationId |-> c,
                summary        |-> calls[Len(calls)].summary,
                updatedAt      |-> calls[Len(calls)].updatedAt]}

C19_Witness ==
  \E c \in Convs :
    LET calls == UpsertCalls(c)
    IN /\ Len(calls) >= 2
       /\ calls[1].summary # calls[2].summary
       /\ calls[1].updatedAt # calls[2].updatedAt
       /\ Cardinality(SummaryRows(c)) = 1

\* C20: the first ensureConversation call for an id creates the row with
\* its createdAt, and every later call for the id leaves the row and its
\* created_at as they are.
C20_InsertIfAbsent ==
  \A c \in Convs :
    LET calls == EnsureCalls(c)
    IN IF calls = <<>>
       THEN conversations[c] = None
       ELSE conversations[c] = Some(calls[1].createdAt)

C20_Witness ==
  \E c \in Convs :
    LET calls == EnsureCalls(c)
    IN /\ Len(calls) >= 2
       /\ calls[2].createdAt > calls[1].createdAt
       /\ conversations[c] = Some(calls[1].createdAt)

----------------------------------------------------------------------------
(* Properties of the request gateway.                                      *)

ChatIds == {q \in RequestIds : requests[q].kind = "chat"}

ReadIds == {q \in RequestIds : requests[q].kind = "history"}

\* the payload has neither message nor voice, or its message is empty after
\* trimming or too long, or its conversationId is not a UUID
Malformed(body) ==
  \/ body.message = None /\ body.voice = None
  \/ /\ body.message # None
     /\ \/ \A i \in 1..Len(body.message[1]) : body.message[1][i] \in Whitespace
        \/ Len(Trim(body.message[1])) > MAX_MESSAGE_LENGTH
  \/ body.conversationId # None /\ body.conversationId[1] \notin Convs

\* C16: a POST /api/chat request whose payload is malformed or empty is
\* answered with a 4xx status, never a 5xx.
C16_MalformedIsClientError ==
  \A q \in ChatIds :
    (requests[q].pc = "done" /\ Malformed(requests[q].body)) =>
      requests[q].status \in 400..499

\* enforceRateLimit returned false to the request
Denied(q) ==
  /\ requests[q].rl # 0
  /\ rlCalls[requests[q].rl].result = Some(FALSE)

\* C17: a valid POST /api/chat request that enforceRateLimit denies is
\* answered 429 with a retry-after hint and goes no further: no
\* transcription, no handleMessage, no message row and no workflow instance
\* comes from it.
C17_DeniedIsNotForwarded ==
  /\ \A q \in ChatIds :
       Denied(q) =>
         /\ requests[q].pc \in {"rateLimit", "done"}
         /\ requests[q].pc = "done" =>
              /\ requests[q].status = 429
              /\ requests[q].response[1].retryAfterMs = RATE_LIMIT_WINDOW_MS
         /\ requests[q].transcriptions = 0
         /\ requests[q].message = None
         /\ requests[q].turn = 0
  /\ \A t \in TurnIds :
       \E q \in ChatIds : requests[q].turn = t /\ ~Denied(q)
  /\ \A i \in 1..Len(messages) : \E t \in TurnIds : i \in turns[t].wrote
  /\ \A id \in workflows :
       \E t \in TurnIds : id = WorkflowId(turns[t].conv, turns[t].createdAt)

C17_Witness ==
  \E q \in ChatIds :
    /\ Denied(q)
    /\ requests[q].status = 429
    /\ requests[q].parsed[1].voice # None
    /\ requests[q].parsed[1].message = None
    /\ turns = <<>>

\* the history request h follows the answer to the chat request q and asks
\* for the conversation id that answer carries
Follows(h, q) ==
  /\ q \in requests[h].seen
  /\ requests[h].pc = "done"
  /\ requests[h].status = 200
  /\ requests[h].conv = requests[q].conv

\* C18: a successful POST /api/chat with a message and no conversationId
\* answers with a newly generated conversation id, a non-empty reply and
\* metadata.messageCount = 2, and a following GET /api/history for that id
\* returns exactly two messages, the user message and then the reply.
C18_EndToEnd ==
  \A q \in ChatIds :
    (/\ requests[q].pc = "done"
     /\ requests[q].status = 200
     /\ requests[q].body.message # None
     /\ requests[q].body.conversationId = None) =>
      LET answer == requests[q].response[1]
      IN /\ requests[q].minted
         /\ answer.conversationId = requests[q].conv[1]
         /\ answer.reply # <<>>
         /\ answer.metadata.messageCount = 2
         /\ \A h \in ReadIds :
              Follows(h, q) =>
                LET msgs == requests[h].response[1].messages
                IN /\ Len(msgs) = 2
                   /\ msgs[1].role = "user"
                   /\ msgs[1].content = requests[q].message[1]
                   /\ msgs[2].role = "assistant"
                   /\ msgs[2].content = answer.reply

\* the requests that went through the routing of fetch
RouteIds == {q \in RequestIds : requests[q].kind = "other"}

\* a request no handler of the worker takes: not a preflight, not /health,
\* not the chat or the history endpoint, not an Agents endpoint
Unhandled(req) ==
  /\ req.body.method # "OPTIONS"
  /\ req.body.path # "/health"
  /\ ~(req.body.path = "/api/chat" /\ req.body.method = "POST")
  /\ ~(req.body.path = "/api/history" /\ req.body.method = "GET")
  /\ ~IsAgentPath(req.body.path)

IsNotFound(req) ==
  /\ req.status = 404
  /\ req.response # None
  /\ "error" \in DOMAIN req.response[1]
  /\ req.response[1].error = "Not Found"

\* C21: every request to a route the worker does not handle, the GET of the
\* root path included, is answered with status 404 and a JSON body whose
\* error field is "Not Found".
C21_UnhandledRouteIsNotFound ==
  \A q \in RouteIds :
    (Unhandled(requests[q]) /\ requests[q].pc = "done") =>
      IsNotFound(requests[q])

----------------------------------------------------------------------------
(* Properties of extractPinnedFacts.                                       *)

\* after trimming, the line starts with a marker followed by whitespace
IsBullet(line) ==
  LET t == Trim(line)
  IN Len(t) >= 2 /\ t[1] \in Markers /\ t[2] \in Whitespace

\* the line without its marker and the whitespace before and after it
Unmarked(line) == TrimStart(Tail(TrimStart(line)))

\* C15: extractPinnedFacts returns, in their order in the text, the first
\* min(5, k) of the k lines that after trimming start with '-' or '*'
\* followed by whitespace, each without its marker and the whitespace around
\* the marker; no other line appears in the result.
C15_FirstFiveBullets ==
  (extraction # None /\ extraction[1].facts # None) =>
    LET bullets == SelectSeq(extraction[1].lines, IsBullet)
        facts   == extraction[1].facts[1]
    IN /\ Len(facts) = Min(5, Len(bullets))
       /\ \A i \in 1..Len(facts) : facts[i] = Unmarked(bullets[i])

C15_Witness ==
  /\ extraction # None
  /\ extraction[1].facts # None
  /\ Len(extraction[1].lines) = 6
  /\ \A i \in 1..6 : IsBullet(extraction[1].lines[i])
  /\ extraction[1].lines[6] = <<" ", "-", " ", " ", "c", " ">>
  /\ extraction[1].lines[5] = <<"*", " ", "b">>
  /\ extraction[1].facts[1] =
       [i \in 1..5 |-> IF i = 5 THEN <<"b">> ELSE <<"a">>]

----------------------------------------------------------------------------
(* Properties of ConversationWorkflow.run.                                 *)

RunsOf(c) == {r \in RunIds : runs[r].conv = c}

\* the fetch step of the run returned no message
FetchedNothing(run) == run.fetched /\ run.history = <<>>

\* C12: a run whose fetch step returns zero messages ends successfully
\* without calling the summary model, without writing a row to
\* conversation_summaries and without sending a state update to the actor.
C12_EmptyTranscriptNoOp ==
  /\ \A r \in RunIds :
       FetchedNothing(runs[r]) =>
         /\ runs[r].pc = "done"
         /\ runs[r].outcome = "ok"
         /\ runs[r].aiCalls = 0
         /\ ~runs[r].persisted
         /\ runs[r].syncs = 0
  /\ \A row \in summaries :
       \E r \in RunsOf(row.conversationId) :
         runs[r].persisted /\ ~FetchedNothing(runs[r])
  /\ lastUpdate # None =>
       \E r \in RunsOf(lastUpdate[1].conv) :
         runs[r].syncs > 0 /\ ~FetchedNothing(runs[r])

C12_Witness ==
  \E r \in RunIds :
    /\ FetchedNothing(runs[r])
    /\ runs[r].pc = "done"
    /\ runs[r].outcome = "ok"
    /\ messages # <<>>
    /\ summaries = {}
    /\ lastUpdate = None

\* C13: when the sync step of a run fails, the step that meets the failure
\* ends the run and changes neither conversation_summaries, where the
\* summary the run persisted stays, nor the actor state, which stays stale.
C13_SyncFailureKeepsSummary ==
  [][\A r \in RunIds :
       (runs[r].pc = "sync" /\ runs'[r] # runs[r]
          /\ runs'[r].syncs = runs[r].syncs) =>
         /\ runs'[r].pc = "done"
         /\ runs'[r].outcome = "failed"
         /\ runs[r].persisted
         /\ summaries' = summaries
         /\ SummaryRows(runs[r].conv) # {}
         /\ agentState' = agentState]_vars

C13_Witness ==
  \E r \in RunIds :
    /\ runs[r].failedAt = "sync"
    /\ runs[r].pc = "done"
    /\ SummaryRows(runs[r].conv) =
         {[conversationId |-> runs[r].conv, summary |-> runs[r].summary,
           updatedAt |-> runs[r].updatedAt]}
    /\ agentState[runs[r].conv].summary # Some(runs[r].summary)

\* C14: once every run triggered for a conversation has completed its sync
\* step and no turn of the conversation is in progress, the summary in the
\* actor state equals the summary stored for the conversation.
C14_SummaryConverges ==
  \A c \in Convs :
    (/\ RunsOf(c) # {}
     /\ \A r \in RunsOf(c) : runs[r].pc = "done" /\ runs[r].syncs = 1
     /\ InProgress(c) = {}) =>
      \E row \in SummaryRows(c) : agentState[c].summary = Some(row.summary)

\* the steps of run(), in the order of its awaits
Steps == <<"fetch", "summarize", "persist", "sync">>

\* C27: a run that is interrupted after some step completed does not
\* execute the completed steps again and continues from the first step that
\* had not completed, and in every run the steps take effect in the order
\* fetch recent messages, summarize conversation, persist summary, sync
\* agent state: no step completes twice, a step has completed only if the
\* step before it has, and a run that has not ended is at the first step
\* that has not completed.
C27_ResumeSkipsCompletedSteps ==
  \A r \in RunIds :
    /\ \A k \in 1..Len(Steps) : runs[r].execs[Steps[k]] <= 1
    /\ \A k \in 2..Len(Steps) :
         runs[r].execs[Steps[k]] <= runs[r].execs[Steps[k - 1]]
    /\ runs[r].pc # "done" =>
         \E k \in 1..Len(Steps) :
           /\ runs[r].pc = Steps[k]
           /\ runs[r].execs[Steps[k]] = 0
           /\ \A j \in 1..(k - 1) : runs[r].execs[Steps[j]] = 1
    /\ runs[r].fetched = (runs[r].execs.fetch = 1)
    /\ runs[r].persisted = (runs[r].execs.persist = 1)
    /\ runs[r].syncs = runs[r].execs.sync

\* a run was interrupted after its persist step had completed, went on with
\* the sync step and ended with every step completed once
C27_Witness ==
  \E r \in RunIds :
    /\ runs[r].interruptedAt = "sync"
    /\ runs[r].outcome = "ok"
    /\ \A k \in 1..Len(Steps) : runs[r].execs[Steps[k]] = 1
    /\ \E row \in summaries : row.conversationId = runs[r].conv

\* C28: if the summary model returns an empty result in the summarize
\* step, the step fails and the run neither writes a summary to
\* conversation_summaries nor sends a state update to the actor.
C28_EmptySummaryEndsRun ==
  \A r \in RunIds :
    runs[r].gotEmpty =>
      /\ runs[r].pc \in {"summarize", "done"}
      /\ runs[r].pc = "done" => runs[r].failedAt = "summarize"
      /\ ~runs[r].persisted
      /\ runs[r].syncs = 0

\* C31: rows of conversation_summaries are written only by the persist
\* step of the pipeline: every step that changes the table is the persist
\* step of a run and writes that run's summary; the steps of handleMessage,
\* of the /agent/state update and of the history endpoint leave it as it is.
C31_OnlyPersistStepWrites ==
  [][summaries' # summaries =>
       \E r \in RunIds :
         /\ runs[r].pc = "persist" /\ runs'[r].pc = "sync"
         /\ turns' = turns /\ requests' = requests /\ agentState' = agentState
         /\ summaries' = PersistSummary(summaries, runs[r].conv,
                                        runs[r].summary, runs[r].updatedAt)]_vars

\* a turn has returned and a run has stored a summary of its messages
C31_Witness ==
  /\ \E t \in TurnIds : turns[t].outcome = "ok"
  /\ \E r \in RunIds :
       /\ runs[r].persisted
       /\ [conversationId |-> runs[r].conv, summary |-> runs[r].summary,
           updatedAt |-> runs[r].updatedAt] \in summaries

----------------------------------------------------------------------------
(* Properties of ensureSchema.                                             *)

\* C6: at most one initialization is pending or has succeeded, it is the one
\* schemaReady holds, and a call that finds one pending or succeeded awaits
\* it and starts no execution of the migration statements.
C6_SingleInitialization ==
  /\ Cardinality(LiveInits) <= 1
  /\ \A p \in LiveInits : schemaReady = Some(p)
  /\ \A k \in CallerIds :
       callers[k].live # {} =>
         /\ ~callers[k].started
         /\ callers[k].awaits \in callers[k].live

C6_Witness ==
  \E j, k \in CallerIds :
    /\ j # k
    /\ callers[j].started /\ callers[j].pc = "returned"
    /\ callers[k].live = {callers[j].awaits}
    /\ callers[k].awaits = callers[j].awaits
    /\ callers[k].pc = "returned"
    /\ Len(inits) = 1
    /\ tables = 1..NumStatements

\* C7: after a bootstrap attempt has failed, schemaReady no longer holds the
\* failed initialization, so the next ensureSchema call runs the migration
\* statements again.
C7_FailureClearsSchemaReady ==
  schemaReady # None => inits[schemaReady[1]].state # "rejected"

----------------------------------------------------------------------------
(* Properties of the order of the persist and sync steps.                  *)

\* C33: the persist step of a run completes before its sync step starts, so
\* a summary the agent caches from a run was written to
\* conversation_summaries for that conversation before: a run in or past
\* its sync step has persisted, and the summary the agent holds is the one
\* a run of the conversation persisted.
C33_SyncAfterPersist ==
  /\ \A r \in RunIds :
       (runs[r].pc = "sync" \/ runs[r].syncs > 0 \/ runs[r].failedAt = "sync") =>
         /\ runs[r].persisted
         /\ runs[r].execs.persist > 0
         /\ SummaryRows(runs[r].conv) # {}
  /\ lastUpdate # None =>
       \E r \in RunsOf(lastUpdate[1].conv) :
         /\ runs[r].persisted
         /\ lastUpdate[1].update.summary = Some(runs[r].summary)
  /\ \A c \in Convs :
       agentState[c].summary # None =>
         \E r \in RunsOf(c) :
           /\ runs[r].persisted
           /\ agentState[c].summary = Some(runs[r].summary)
           /\ SummaryRows(c) # {}

C33_Witness ==
  \E r \in RunIds :
    /\ runs[r].syncs > 0
    /\ agentState[runs[r].conv].summary = Some(runs[r].summary)
    /\ [conversationId |-> runs[r].conv, summary |-> runs[r].summary,
        updatedAt |-> runs[r].updatedAt] \in summaries

\* C34: the lastUpdated a run sends to the agent in its sync step denotes
\* the instant of the updated_at its persist step wrote, also when the run
\* was interrupted between the two steps and resumed.
C34_SyncSendsPersistedInstant ==
  [][\A r \in RunIds :
       (runs[r].pc = "sync" /\ runs'[r].syncs = runs[r].syncs + 1) =>
         /\ runs[r].persisted
         /\ lastUpdate'[1].update.lastUpdated
              = Some(ToISOString(runs[r].persistedAt))
         /\ [conversationId |-> runs[r].conv, summary |-> runs[r].summary,
             updatedAt |-> runs[r].persistedAt] \in summaries]_vars

----------------------------------------------------------------------------
(* Properties of the runs that turns trigger.                              *)

\* the rows of conversation_messages of conversation c
StoredOf(c) == {i \in 1..Len(messages) : messages[i].conversationId = c}

\* C35: a run is enqueued only after both messages of its turn are stored:
\* an instance exists only for a turn that wrote its user and its assistant
\* row, a run a turn triggered finds at least two messages in its fetch
\* step and does not take the empty-transcript exit, and a row of
\* conversation_summaries belongs to a conversation that has a
\* conversations row and at least one message.
C35_RunAfterBothMessages ==
  /\ \A t \in TurnIds :
       turns[t].enqueue = "created" =>
         /\ Cardinality(RowsOf(turns[t])) = 2
         /\ \E i, j \in RowsOf(turns[t]) :
              /\ i < j
              /\ messages[i].role = "user"
              /\ messages[j].role = "assistant"
              /\ messages[i].conversationId = turns[t].conv
              /\ messages[j].conversationId = turns[t].conv
  /\ \A id \in workflows :
       \E t \in TurnIds :
         /\ id = WorkflowId(turns[t].conv, turns[t].createdAt)
         /\ turns[t].pc \in {"enqueue", "done"}
         /\ Cardinality(StoredOf(turns[t].conv)) >= 2
  /\ \A r \in RunIds :
       runs[r].fetched =>
         /\ Len(runs[r].history) >= 2
         /\ ~(runs[r].pc = "done" /\ runs[r].outcome = "ok"
              /\ runs[r].aiCalls = 0)
  /\ \A row \in summaries :
       /\ conversations[row.conversationId] # None
       /\ StoredOf(row.conversationId) # {}

C35_Witness ==
  \E r \in RunIds : \E t \in TurnIds :
    /\ runs[r].conv = turns[t].conv
    /\ turns[t].enqueue = "created"
    /\ runs[r].persisted
    /\ Len(runs[r].history) = 2
    /\ SummaryRows(runs[r].conv) # {}

----------------------------------------------------------------------------
(* Properties of the shape of a transcript.                                *)

\* the rows of conversation c in insertion order
Transcript(c) ==
  LET OfConv(m) == m.conversationId = c
  IN SelectSeq(messages, OfConv)

\* no handleMessage of conversation c is between its start and its return
Quiescent(c) ==
  \A t \in TurnIds : turns[t].conv = c => turns[t].pc = "done"

\* C36: whenever no handleMessage is in progress for a conversation, its
\* transcript in insertion order is a sequence of (user, assistant) pairs:
\* the count is even, a user row is followed by the assistant row of the
\* same turn.
C36_TranscriptIsPairs ==
  \A c \in Convs :
    Quiescent(c) =>
      LET T == Transcript(c)
      IN /\ Len(T) % 2 = 0
         /\ \A k \in 1..Len(T) :
              k % 2 = 1 =>
                /\ T[k].role = "user"
                /\ T[k + 1].role = "assistant"
                /\ \E t \in TurnIds :
                     /\ turns[t].conv = c
                     /\ RowsOf(turns[t]) = {T[k].id, T[k + 1].id}

----------------------------------------------------------------------------
(* Properties of metadata.messageCount.                                    *)

\* the number of rows conversation c1 held before turn t, the turns of the
\* conversation running one after the other
HeldBefore(t) ==
  Cardinality({i \in StoredOf(turns[t].conv) :
                 \A u \in t..Len(turns) : i \notin turns[u].wrote})

\* C37: for a conversation holding n messages before a turn whose metadata
\* does not name messageCount, the messageCount of the response is
\* min(n, 15) + 2: it is the number of messages stored after the turn
\* exactly when n <= 15 and it is 17 for every longer conversation.
C37_MessageCountCapped ==
  \A t \in TurnIds :
    (turns[t].outcome = "ok" /\ "messageCount" \notin DOMAIN turns[t].metadata) =>
      LET n == HeldBefore(t)
          count == turns[t].response[1].metadata.messageCount
          after == n + Cardinality(RowsOf(turns[t]))
      IN /\ count = Min(n, HistoryLimit) + 2
         /\ after = n + 2
         /\ (count = after) <=> (n <= HistoryLimit)
         /\ n > HistoryLimit => count = HistoryLimit + 2

C37_Witness ==
  \E t \in TurnIds :
    /\ turns[t].outcome = "ok"
    /\ "messageCount" \notin DOMAIN turns[t].metadata
    /\ HeldBefore(t) > HistoryLimit
    /\ turns[t].response[1].metadata.messageCount = HistoryLimit + 2
    /\ Cardinality(StoredOf(turns[t].conv)) > HistoryLimit + 2

----------------------------------------------------------------------------
(* Properties of the order of validation and rate limiting.                *)

\* the request was rejected before enforceRateLimit: by the content-type
\* check or by chatRequestSchema.parse
Rejected(q) ==
  \/ requests[q].contentType # "application/json"
  \/ Malformed(requests[q].body)

\* the enforceRateLimit call i has issued the put that counts its request:
\* one more than the record it read, or the first of a new window
Consumed(i) ==
  LET rec == rlCalls[i].record
  IN /\ rlCalls[i].put # None
     /\ rlCalls[i].put[1].value =
          JSONStringify(IF rec = None \/ rec[1].reset < rlCalls[i].now
                        THEN [count |-> 1, reset |-> rlCalls[i].windowEnd]
                        ELSE [count |-> rec[1].count + 1,
                              reset |-> rec[1].reset])

\* the request got past validation and its enforceRateLimit has returned
Checked(q) ==
  /\ requests[q].rl # 0
  /\ requests[q].pc # "rateLimit"

\* validation precedes the rate-limit check, which precedes transcription
\* and the call of the agent; a rejected request leaves every rate-limit
\* record as it was
ValidationThenLimit ==
  /\ \A q \in ChatIds :
       LET rejected == Rejected(q)
       IN /\ rejected =>
               /\ requests[q].rl = 0
               /\ requests[q].pc = "done"
               /\ requests[q].transcriptions = 0
               /\ requests[q].turn = 0
               /\ requests[q].message = None
          /\ ~rejected =>
               /\ requests[q].rl \in RlIds
               /\ \A p \in ChatIds : requests[p].rl = requests[q].rl => p = q
               /\ (requests[q].transcriptions > 0 \/ requests[q].turn # 0
                     \/ requests[q].message # None) =>
                    rlCalls[requests[q].rl].result = Some(TRUE)
  /\ \A i \in RlIds : \E q \in ChatIds : requests[q].rl = i

\* C38 as stated: validation precedes the rate-limit check, which precedes
\* transcription and the actor call; a request rejected by validation leaves
\* the rate-limit record of its key unchanged, and every valid request, also
\* one that fails later, consumes one unit of the quota of its key.
C38_EveryValidRequestConsumes ==
  /\ ValidationThenLimit
  /\ \A q \in ChatIds : Checked(q) => Consumed(requests[q].rl)

\* C38, amended: validation precedes the rate-limit check, which precedes
\* transcription and the actor call; a request rejected by validation
\* issues no rate-limit check and leaves every record unchanged; every valid
\* request issues exactly one check; a check that allows its request, also
\* one that fails later in transcription or inference, stores a record
\* counting one more than the record it read (or the first of a new
\* window), and a check that denies its request stores nothing.
C38_AllowedRequestConsumes ==
  /\ ValidationThenLimit
  /\ \A q \in ChatIds :
       Checked(q) =>
         LET i == requests[q].rl
         IN /\ rlCalls[i].pc = "done"
            /\ rlCalls[i].result = Some(TRUE) => Consumed(i)
            /\ rlCalls[i].result = Some(FALSE) =>
                 /\ rlCalls[i].put = None
                 /\ requests[q].status = 429
            /\ requests[q].status \in {200, 400, 500} => Consumed(i)
  /\ \A k \in AllKeys :
       kv[k] # (IF k = RateKey("c1") THEN UsedUpWindow(0) ELSE None) =>
         \E i \in RlIds :
           /\ rlCalls[i].key = k
           /\ rlCalls[i].result = Some(TRUE)
           /\ Consumed(i)

\* a valid voice request was counted and then failed in transcription,
\* next to a rejected request that left no trace
C38_Witness ==
  \E q \in ChatIds :
    /\ ~Rejected(q)
    /\ requests[q].pc = "done"
    /\ requests[q].status = 500
    /\ requests[q].transcriptions > 0
    /\ Consumed(requests[q].rl)
    /\ kv[rlCalls[requests[q].rl].key] # None

====
